---- MODULE Spec2Model ----
(***************************************************************************)
(* Verification model of the Miosync main server: WhatsApp message token   *)
(* store, webhook correlation (whatsapp.controller / whatsapp.service) and *)
(* the event reminder scheduler (events-reminder.scheduler).               *)
(* The dispatcher side is modelled by WhatsAppService.sendTemplate, the     *)
(* retryWithBackoff helper of sendReminderMessages and the two webhook      *)
(* endpoints' HTTP answers.                                                 *)
(*                                                                         *)
(* Strings the code manipulates character by character (phone numbers,     *)
(* button titles) are tuples of one-character strings.  Database rows are  *)
(* records; the token table is a set of rows, and the "messageId" unique   *)
(* constraint is what storeMessageToken's ON CONFLICT clause relies on.    *)
(* Row timestamps are kept as their rank (only their order is read).       *)
(***************************************************************************)
EXTENDS Integers, Sequences, FiniteSets, Bags, TLC

\* ------------------------------------------------------------------ bounds
MaxMsgs == 2          \* provider message ids issued to token-storing sends
MaxReplies == 1       \* distinct inbound reply payloads (each may be replayed)
MaxHandlers == 2      \* detached webhook handlers in flight at once
MaxNow == 2           \* last hour the clock reaches
MaxInFlight == 2      \* reminder ticks in flight at once

\* --------------------------------------------------------- string helpers
Digit == {"0", "1", "2", "3", "4", "5", "6", "7", "8", "9"}

IsDigitOrPlus(c) == c \in Digit \cup {"+"}

\* s.replace(/[^\d+]/g, '')   (a preceding .trim() removes nothing more)
replaceNonDigitPlus(s) == SelectSeq(s, IsDigitOrPlus)

startsWith(s, pre) == Len(s) >= Len(pre) /\ SubSeq(s, 1, Len(pre)) = pre

substring1(s) == SubSeq(s, 2, Len(s))

\* a '+' followed by digits of any number
matchesPlusDigits(s) ==
  /\ Len(s) >= 1
  /\ s[1] = "+"
  /\ \A i \in 2..Len(s) : s[i] \in Digit

\* /^\+\d{10,15}$/.test(s)
matchesE164(s) ==
  /\ Len(s) >= 11
  /\ Len(s) <= 16
  /\ s[1] = "+"
  /\ \A i \in 2..Len(s) : s[i] \in Digit

NotSpaceOrDash(c) == c \notin {" ", "-"}

\* REPLACE(REPLACE("phoneNumber", ' ', ''), '-', '')
sqlReplaceSpaceDash(s) == SelectSeq(s, NotSpaceOrDash)

toLowerChar(c) ==
  CASE c = "Y" -> "y" [] c = "E" -> "e" [] c = "S" -> "s"
    [] c = "N" -> "n" [] c = "O" -> "o" [] c = "M" -> "m"
    [] c = "A" -> "a" [] c = "B" -> "b" [] c = "T" -> "t"
    [] OTHER -> c

toLowerCase(s) == [i \in 1..Len(s) |-> toLowerChar(s[i])]

includes(s, sub) ==
  \E i \in 1..(Len(s) - Len(sub) + 1) : SubSeq(s, i, i + Len(sub) - 1) = sub

\* ------------------------------------------------------------- the data set
\* event_participants rows (id, eventId, phoneNumber as stored, created_at rank).
\* p1 and p2 are one subscriber invited to two events, entered in two formats.
Participants == {"p1", "p2"}

NoParticipant == "none"

pEvent == [p \in Participants |-> IF p = "p1" THEN "e1" ELSE "e2"]

pPhone == [p \in Participants |->
             IF p = "p1"
             THEN <<"0", "9", "1", "2", "3", "4", "-", "5", "6", "7", "8", "9">>
             ELSE <<"+", "9", "1", "9", "1", "2", "3", "4", "5", "6", "7", "8", "9">>]

pCreated == [p \in Participants |-> IF p = "p1" THEN 1 ELSE 2]

\* the "from" / "recipient_id" the provider reports for a destination: the
\* subscriber's number without the leading "+"
WaId(dest) == IF startsWith(dest, <<"+">>) THEN substring1(dest) ELSE dest

Yes == <<"Y", "e", "s">>
No == <<"N", "o">>
ButtonTexts == {Yes, No}
ButtonIds == {<<"b", "t", "n", "1">>}

NoMsg == 0
MsgIds == 1..MaxMsgs
ReplyIds == 1..MaxReplies
\* the id of a further reply, one the subscriber sends after those of ReplyIds
LaterReply == MaxReplies + 1

NoTok == [messageId |-> NoMsg, participantId |-> NoParticipant,
          eventId |-> "none", templateName |-> "none"]

NullAttending == "null"

VARIABLES
  tokens,         \* whatsapp_message_tokens rows
  attending,      \* event_participants.attending per participant
  sent,           \* sequence: for each issued message id, what the send path sent
  pendingStores,  \* detached storeMessageToken calls not yet executed
  storeDone,      \* message ids whose send-path INSERT statement has executed
  handlers,       \* bag of detached webhook handlers in flight
  payloadOf,      \* the payload of each inbound reply id (replays repeat it)
  effects,        \* per reply id: tokens consumed and participants updated
  consumed,       \* message ids whose token was marked processed or deleted
  revision,       \* which revision of storeMessageToken is deployed
  lastRequest     \* the latest webhook POST: the path taken and the statuses sent

wvars == <<tokens, attending, sent, pendingStores, storeDone, handlers,
           payloadOf, effects, consumed, revision, lastRequest>>

VARIABLES
  now,            \* the clock, in hours
  reminderAt,     \* per tier and participant: the tier's sent-timestamp column
  ticks,          \* bag of handleEventReminders executions in flight
  phase,          \* "constructed", "initial" (first tick awaited), "running",
                  \* and after onModuleDestroy: "stopped" (interval cleared),
                  \* "initialDestroyed", "runningDestroyed" (no interval to clear)
  healthy,        \* the provider and the database have stopped failing
  idReturned,     \* <<tier, participant>> pairs a send returned a message id for
  lastFailed      \* the <<tier, participant>> pair whose attempt failed last

svars == <<now, reminderAt, ticks, phase, healthy, idReturned, lastFailed>>

VARIABLES
  retry,          \* the run of retryWithBackoff in progress or last finished
  dispatch,       \* the latest call of WhatsAppService.sendTemplate
  verify          \* the latest GET on the webhook verification endpoint

dvars == <<retry, dispatch, verify>>

VARIABLES
  bulk,           \* the latest EventParticipantsService.create and its detached batch
  phone,          \* a phone number under normalization: input, site, outcome
  button,         \* a button reply under the attendance decision of its branch
  record,         \* an inbound message record under classification by the messages loop
  logged          \* message ids whose status arrived in a record with messages

cvars == <<bulk, phone, button, record, logged>>

vars == <<wvars, svars, dvars, cvars>>

\* ------------------------------------------------------------ token store
\* created_at values are kept as ranks 1..n (the queries only read their order)
Renumber(rows) ==
  {[r EXCEPT !.createdAt = Cardinality({q \in rows : q.createdAt <= r.createdAt})] :
     r \in rows}

\* an upsert: INSERT ... ON CONFLICT ("messageId") DO UPDATE SET ...
insertOnConflictDoUpdate(rows, m, p, e, ph, tpl, proc) ==
  Renumber({r \in rows : r.messageId # m}) \cup
    {[messageId |-> m, participantId |-> p, eventId |-> e,
      phoneNumber |-> ph, templateName |-> tpl, isProcessed |-> proc,
      createdAt |-> Cardinality({r \in rows : r.messageId # m}) + 1]}

\* INSERT ... ON CONFLICT ("messageId") DO NOTHING, created_at DEFAULT NOW()
insertOnConflictDoNothing(rows, m, p, e, ph, tpl, proc) ==
  IF \E r \in rows : r.messageId = m
  THEN rows
  ELSE Renumber(rows) \cup
         {[messageId |-> m, participantId |-> p, eventId |-> e,
           phoneNumber |-> ph, templateName |-> tpl, isProcessed |-> proc,
           createdAt |-> Cardinality(rows) + 1]}

\* WhatsAppService.storeMessageToken, current revision: "isProcessed" = false
storeMessageToken(rows, m, p, e, ph, tpl) ==
  insertOnConflictDoNothing(rows, m, p, e, ph, tpl, FALSE)

\* WhatsAppService.storeMessageToken, revision of modules/whatsapp/whatsapp.service.ts:
\* "isProcessed" = true
storeMessageTokenPrev(rows, m, p, e, ph, tpl) ==
  insertOnConflictDoNothing(rows, m, p, e, ph, tpl, TRUE)

StoreToken(rows, m, p, e, ph, tpl) ==
  IF revision = "current"
  THEN storeMessageToken(rows, m, p, e, ph, tpl)
  ELSE storeMessageTokenPrev(rows, m, p, e, ph, tpl)

\* a lookup without its WHERE clause: the newest row whatever the id
findAnyToken(rows, m) ==
  IF rows # {}
  THEN LET r == CHOOSE q \in rows : \A o \in rows : o.createdAt <= q.createdAt
       IN [messageId |-> r.messageId, participantId |-> r.participantId,
           eventId |-> r.eventId, templateName |-> r.templateName]
  ELSE [messageId |-> NoMsg, participantId |-> NoParticipant,
        eventId |-> "none", templateName |-> "none"]

\* SELECT ... WHERE "messageId" = $1 LIMIT 1   (null when no row)
findParticipantByMessageId(rows, m) ==
  IF \E r \in rows : r.messageId = m
  THEN LET r == CHOOSE q \in rows : q.messageId = m
       IN [messageId |-> r.messageId, participantId |-> r.participantId,
           eventId |-> r.eventId, templateName |-> r.templateName]
  ELSE NoTok

\* the same query as below with ORDER BY "created_at" ASC
oldestUnprocessedByPhone(rows, ph) ==
  LET cand == {r \in rows : r.phoneNumber = ph /\ ~r.isProcessed}
  IN IF cand = {} THEN NoTok
     ELSE LET r == CHOOSE q \in cand : \A o \in cand : q.createdAt <= o.createdAt
          IN [messageId |-> r.messageId, participantId |-> r.participantId,
              eventId |-> r.eventId, templateName |-> r.templateName]

\* SELECT ... WHERE "phoneNumber" = $1 AND "isProcessed" = false
\*   ORDER BY "created_at" DESC LIMIT 1
latestUnprocessedByPhone(rows, ph) ==
  LET cand == {r \in rows : r.phoneNumber = ph /\ ~r.isProcessed}
  IN IF cand = {} THEN NoTok
     ELSE LET r == CHOOSE q \in cand : \A o \in cand : o.createdAt <= q.createdAt
          IN [messageId |-> r.messageId, participantId |-> r.participantId,
              eventId |-> r.eventId, templateName |-> r.templateName]

\* UPDATE ... SET "isProcessed" = true WHERE "messageId" = $1
markMessageTokenAsProcessed(rows, m) ==
  {IF r.messageId = m THEN [r EXCEPT !.isProcessed = TRUE] ELSE r : r \in rows}

\* DELETE FROM "whatsapp_message_tokens" WHERE "messageId" = $1
deleteMessageToken(rows, m) == Renumber({r \in rows : r.messageId # m})

\* SELECT ... FROM "event_participants"
\*   WHERE REPLACE(REPLACE("phoneNumber",' ',''),'-','') = $1 OR "phoneNumber" = $1
\*   ORDER BY "created_at" DESC LIMIT 1
participantByPhone(ph) ==
  LET cand == {p \in Participants :
                 sqlReplaceSpaceDash(pPhone[p]) = ph \/ pPhone[p] = ph}
  IN IF cand = {} THEN NoParticipant
     ELSE CHOOSE p \in cand : \A o \in cand : pCreated[o] <= pCreated[p]

\* an UPDATE without its WHERE clause
updateEveryAttending(att, p, e, value) == [q \in Participants |-> value]

\* UPDATE "event_participants" SET attending = $1 WHERE id = $2 AND "eventId" = $3
updateParticipantAttending(att, p, e, value) ==
  [q \in Participants |-> IF q = p /\ pEvent[q] = e THEN value ELSE att[q]]

\* ---------------------------------------------------------------- send path
CountryCode == <<"+", "9", "1">>

\* the inline phone formatting of sendBookingConfirmationMessage
inlineNormalize(raw) ==
  LET a == replaceNonDigitPlus(raw)
      b == IF startsWith(a, <<"0">>) /\ ~startsWith(a, <<"+">>) THEN substring1(a) ELSE a
  IN IF ~startsWith(b, <<"+">>) THEN CountryCode \o b ELSE b

\* EventParticipantsService.sendBookingConfirmationMessage: the provider accepts
\* the template and returns the next message id; storeMessageToken is started
\* without being awaited.
SendBookingConfirmation(p) ==
  LET phoneNumber == inlineNormalize(pPhone[p])
      m == Len(sent) + 1
  IN /\ Len(sent) < MaxMsgs
     /\ matchesE164(phoneNumber)
     /\ sent' = Append(sent, [to |-> phoneNumber, participantId |-> p,
                               eventId |-> pEvent[p],
                               templateName |-> "booking_confirmation"])
     /\ pendingStores' = pendingStores \cup
          {[messageId |-> m, participantId |-> p, eventId |-> pEvent[p],
            phoneNumber |-> phoneNumber, templateName |-> "booking_confirmation"]}
     /\ UNCHANGED <<tokens, attending, storeDone, handlers, payloadOf, effects,
                    consumed, revision, lastRequest, svars, dvars, cvars>>

\* the detached storeMessageToken call runs (a failing INSERT is logged, not thrown)
StoreRun(task, dbok) ==
  /\ task \in pendingStores
  /\ pendingStores' = pendingStores \ {task}
  /\ tokens' = IF dbok
                THEN StoreToken(tokens, task.messageId, task.participantId,
                                task.eventId, task.phoneNumber, task.templateName)
                ELSE tokens
  /\ storeDone' = IF dbok THEN storeDone \cup {task.messageId} ELSE storeDone
  /\ UNCHANGED <<attending, sent, handlers, payloadOf, effects, consumed,
                 revision, lastRequest, svars, dvars, cvars>>

\* ------------------------------------------------- webhook: classification
NoPayload == [kind |-> "none", from |-> <<>>, text |-> <<>>, bid |-> <<>>,
              ctx |-> NoMsg]

\* the senders that can write to the business number
\* a sender that is no participant of any event
Stranger == <<"1", "5", "5", "5", "0", "1", "0", "0", "0", "0", "0">>

Froms == {WaId(inlineNormalize(pPhone[p])) : p \in Participants} \cup {Stranger}

\* msg.type = 'button' with button.text and an optional context.id
ButtonPayloads(issuedIds) ==
  {[kind |-> "button", from |-> f, text |-> t, bid |-> <<>>, ctx |-> c] :
     f \in Froms, t \in ButtonTexts, c \in issuedIds \cup {NoMsg}}

\* msg.interactive.type = 'button_reply'
InteractivePayloads ==
  {[kind |-> "interactive", from |-> f, text |-> t, bid |-> b, ctx |-> NoMsg] :
     f \in Froms, t \in ButtonTexts, b \in ButtonIds}

Spawn(h) == handlers (+) SetToBag({h})

Finish(h) == handlers (-) SetToBag({h})

Replace(h, g) == (handlers (-) SetToBag({h})) (+) SetToBag({g})

Effect(rid, toks, parts) ==
  IF rid \in ReplyIds
  THEN [effects EXCEPT ![rid] = [tokens |-> @.tokens \cup toks,
                                 participants |-> @.participants \cup parts]]
  ELSE effects

HasRow(m) == \E r \in tokens : r.messageId = m

\* ------------------------------------------- webhook: the HTTP response
\* shapes of a POST body that start no detached work: entry missing or not an
\* array, an entry without a changes array, a change without a field, a change
\* whose value has neither messages nor statuses, a text message, a status
\* without id or recipient_id, and a messages array holding null (reading
\* msg.type throws a TypeError inside the try block)
OtherShapes == {"noEntry", "entryNotArray", "changesNotArray", "noField",
                "unknownValue", "text", "statusNoIds", "nullMessage"}

NoRequest == [path |-> "none", codes |-> <<>>]

\* res.sendStatus(code)
sendStatus(codes, code) == Append(codes, code)

\* !body?.entry || !Array.isArray(body.entry)
entryIsArray(shape) == shape \notin {"noEntry", "entryNotArray"}

throwsInLoop(shape) == shape = "nullMessage"

\* an exception leaving handleWebhook: GlobalExceptionFilter answers 500
handleWebhookRethrow(codes) == sendStatus(codes, 500)

\* catch (err) { log; return res.sendStatus(200) }
handleWebhookCatch(codes) == sendStatus(codes, 200)

\* the synchronous body of handleWebhook: the path taken and what it sent
handleWebhook(shape) ==
  IF ~entryIsArray(shape)
  THEN [path |-> "invalid", codes |-> sendStatus(<<>>, 200)]
  ELSE IF throwsInLoop(shape)
       THEN [path |-> "caught", codes |-> handleWebhookCatch(<<>>)]
       ELSE [path |-> "completed", codes |-> sendStatus(<<>>, 200)]

\* a POST that starts no detached work
DeliverOther(shape) ==
  /\ shape \in OtherShapes
  /\ lastRequest' = handleWebhook(shape)
  /\ UNCHANGED <<tokens, attending, sent, pendingStores, storeDone, handlers,
                 payloadOf, effects, consumed, revision, svars, dvars, cvars>>

\* handleWebhook, messages loop, new-format button branch: only an exact
\* "Yes"/"No" with a context id starts the detached chain
\* findParticipantByMessageId(context.id).then(...); a failed query yields null,
\* and only a token of the booking_confirmation template goes on to the update
DeliverButton(rid, pl, dbok) ==
  LET tokenData == IF dbok THEN findParticipantByMessageId(tokens, pl.ctx) ELSE NoTok
  IN /\ BagCardinality(handlers) < MaxHandlers
     /\ \/ payloadOf[rid] = NoPayload /\ pl \in ButtonPayloads(1..Len(sent))
        \/ payloadOf[rid] = pl /\ pl.kind = "button"
     /\ payloadOf' = [payloadOf EXCEPT ![rid] = pl]
     /\ handlers' =
          IF /\ pl.text = Yes \/ pl.text = No
             /\ pl.ctx # NoMsg
             /\ tokenData # NoTok
             /\ tokenData.templateName = "booking_confirmation"
          THEN Spawn([kind |-> "button", pc |-> "update", rid |-> rid,
                      from |-> pl.from, text |-> pl.text, bid |-> <<>>,
                      ctx |-> pl.ctx, tok |-> tokenData])
          ELSE handlers
     /\ lastRequest' = handleWebhook(pl.kind)
     /\ UNCHANGED <<tokens, attending, sent, pendingStores, storeDone, effects,
                    consumed, revision, svars, dvars, cvars>>

\* handleWebhook, messages loop, legacy interactive branch: handleButtonResponse
\* is started detached and looks up the latest unprocessed token of the phone; a
\* failed query throws to the controller's catch; no token means only a warning
DeliverInteractive(rid, pl, dbok) ==
  LET normalizedPhone == replaceNonDigitPlus(pl.from)
      tokenData == latestUnprocessedByPhone(tokens, normalizedPhone)
  IN /\ BagCardinality(handlers) < MaxHandlers
     /\ \/ payloadOf[rid] = NoPayload /\ pl \in InteractivePayloads
        \/ payloadOf[rid] = pl /\ pl.kind = "interactive"
     /\ payloadOf' = [payloadOf EXCEPT ![rid] = pl]
     /\ handlers' =
          IF dbok /\ tokenData # NoTok
          THEN Spawn([kind |-> "interactive", pc |-> "resolve", rid |-> rid,
                      from |-> pl.from, text |-> pl.text, bid |-> pl.bid,
                      ctx |-> NoMsg, tok |-> NoTok])
          ELSE handlers
     /\ lastRequest' = handleWebhook(pl.kind)
     /\ UNCHANGED <<tokens, attending, sent, pendingStores, storeDone, effects,
                    consumed, revision, svars, dvars, cvars>>

\* handleWebhook, statuses branch of a change record without messages: a status
\* of an issued message (recipient_id is the subscriber's wa id) starts
\* findParticipantByMessageId(status.id).then(...)
DeliverStatus(m, dbok) ==
  LET tokenData == IF dbok THEN findParticipantByMessageId(tokens, m) ELSE NoTok
      recipientId == WaId(sent[m].to)
  IN /\ BagCardinality(handlers) < MaxHandlers
     /\ m \in 1..Len(sent)
     /\ handlers' =
          Spawn([kind |-> "status",
                 pc |-> IF tokenData = NoTok THEN "sstore" ELSE "snr",
                 rid |-> 0, from |-> replaceNonDigitPlus(recipientId),
                 text |-> <<>>, bid |-> <<>>, ctx |-> m, tok |-> tokenData])
     /\ lastRequest' = handleWebhook("statuses")
     /\ UNCHANGED <<tokens, attending, sent, pendingStores, storeDone, payloadOf,
                    effects, consumed, revision, svars, dvars, cvars>>

\* ------------------------------------- webhook: new-format button handler
\* updateParticipantAttending(participantId, eventId, 'Yes' | 'No'); a throw
\* skips the delete
BtnUpdate(h, dbok) ==
  LET hd == h
      attendingStatus == IF hd.text = Yes THEN "Yes" ELSE "No"
  IN /\ hd.kind = "button" /\ hd.pc = "update"
     /\ IF dbok
        THEN /\ attending' = updateParticipantAttending(attending,
                                hd.tok.participantId, hd.tok.eventId, attendingStatus)
             /\ handlers' = Replace(h, [h EXCEPT !.pc = "delete"])
             /\ effects' = Effect(hd.rid, {}, {hd.tok.participantId})
        ELSE /\ handlers' = Finish(h)
             /\ UNCHANGED <<attending, effects>>
     /\ UNCHANGED <<tokens, sent, pendingStores, storeDone, payloadOf, consumed,
                    revision, lastRequest, svars, dvars, cvars>>

\* .then(() => deleteMessageToken(context.id)); a failed DELETE is only logged
BtnDelete(h, dbok) ==
  LET hd == h
  IN /\ hd.kind = "button" /\ hd.pc = "delete"
     /\ handlers' = Finish(h)
     /\ IF dbok /\ HasRow(hd.ctx)
        THEN /\ tokens' = deleteMessageToken(tokens, hd.ctx)
             /\ consumed' = consumed \cup {hd.ctx}
             /\ effects' = Effect(hd.rid, {hd.ctx}, {})
        ELSE UNCHANGED <<tokens, consumed, effects>>
     /\ UNCHANGED <<attending, sent, pendingStores, storeDone, payloadOf, revision, lastRequest, svars, dvars, cvars>>

\* --------------------------------------- webhook: legacy interactive handler
yesLower == <<"y", "e", "s">>
noLower == <<"n", "o">>

\* the attendingStatus decision of handleButtonResponseByMessageId
attendingStatusOf(buttonTitle, buttonId) ==
  IF \/ includes(toLowerCase(buttonTitle), yesLower)
     \/ toLowerCase(buttonTitle) = yesLower
     \/ includes(toLowerCase(buttonId), yesLower)
  THEN "yes"
  ELSE IF \/ includes(toLowerCase(buttonTitle), noLower)
          \/ toLowerCase(buttonTitle) = noLower
          \/ includes(toLowerCase(buttonId), noLower)
       THEN "no"
       ELSE NullAttending

\* the phoneFormats probed by the fallback of handleButtonResponseByMessageId
phoneFormats(normalizedPhone) ==
  << normalizedPhone,
     IF startsWith(normalizedPhone, <<"+">>) THEN normalizedPhone
     ELSE <<"+">> \o normalizedPhone,
     IF startsWith(normalizedPhone, CountryCode) THEN normalizedPhone
     ELSE CountryCode \o (IF startsWith(normalizedPhone, <<"+">>)
                          THEN substring1(normalizedPhone) ELSE normalizedPhone) >>

\* for (const phoneFormat of phoneFormats) { query; if found break }
participantByFormats(fs) ==
  IF participantByPhone(fs[1]) # NoParticipant THEN participantByPhone(fs[1])
  ELSE IF participantByPhone(fs[2]) # NoParticipant THEN participantByPhone(fs[2])
  ELSE participantByPhone(fs[3])

\* handleButtonResponseByMessageId up to the attendance decision: its own token
\* query, the participant fallback and attendingStatus (the messageId argument
\* is the id handleButtonResponse found, never empty, and is not used further)
IntResolve(h, dbok) ==
  LET hd == h
      normalizedPhone == replaceNonDigitPlus(hd.from)
      tokenData == latestUnprocessedByPhone(tokens, normalizedPhone)
      participant == participantByFormats(phoneFormats(normalizedPhone))
      resolved ==
        IF tokenData # NoTok THEN tokenData
        ELSE IF participant # NoParticipant
             THEN [messageId |-> NoMsg, participantId |-> participant,
                   eventId |-> pEvent[participant], templateName |-> "none"]
             ELSE NoTok
      valid == hd.from # <<>> /\ hd.text # <<>> /\ normalizedPhone # <<>>
  IN /\ hd.kind = "interactive" /\ hd.pc = "resolve"
     /\ handlers' =
          IF valid /\ dbok /\ resolved # NoTok
               /\ attendingStatusOf(hd.text, hd.bid) # NullAttending
          THEN Replace(h, [h EXCEPT !.pc = "apply", !.tok = resolved])
          ELSE Finish(h)
     /\ UNCHANGED <<tokens, attending, sent, pendingStores, storeDone, payloadOf,
                    effects, consumed, revision, lastRequest, svars, dvars, cvars>>

\* UPDATE "event_participants" SET attending = ...; a throw skips the mark
IntApply(h, dbok) ==
  LET hd == h
  IN /\ hd.kind = "interactive" /\ hd.pc = "apply"
     /\ IF dbok
        THEN /\ attending' = updateParticipantAttending(attending,
                                hd.tok.participantId, hd.tok.eventId,
                                attendingStatusOf(hd.text, hd.bid))
             /\ effects' = Effect(hd.rid, {}, {hd.tok.participantId})
             /\ handlers' = IF hd.tok.messageId # NoMsg
                             THEN Replace(h, [h EXCEPT !.pc = "mark"])
                             ELSE Finish(h)
        ELSE /\ handlers' = Finish(h)
             /\ UNCHANGED <<attending, effects>>
     /\ UNCHANGED <<tokens, sent, pendingStores, storeDone, payloadOf, consumed,
                    revision, lastRequest, svars, dvars, cvars>>

\* markMessageTokenAsProcessed(storedMessageId); a failed UPDATE is only logged
IntMark(h, dbok) ==
  LET hd == h
      m == hd.tok.messageId
  IN /\ hd.kind = "interactive" /\ hd.pc = "mark"
     /\ handlers' = Finish(h)
     /\ IF dbok /\ HasRow(m)
        THEN /\ tokens' = markMessageTokenAsProcessed(tokens, m)
             /\ consumed' = consumed \cup {m}
             /\ effects' = Effect(hd.rid, {m}, {})
        ELSE UNCHANGED <<tokens, consumed, effects>>
     /\ UNCHANGED <<attending, sent, pendingStores, storeDone, payloadOf, revision, lastRequest, svars, dvars, cvars>>

\* ------------------------------------------------ webhook: status handler
\* findAndStoreStatusToken: participant by phone (as given, then "+"-prefixed),
\* then storeMessageToken(..., normalizedPhone, 'status_update')
findAndStoreStatusToken(rows, messageId, phoneNumber) ==
  LET normalizedPhone == replaceNonDigitPlus(phoneNumber)
      phoneWithPlus == IF startsWith(normalizedPhone, <<"+">>) THEN normalizedPhone
                       ELSE <<"+">> \o normalizedPhone
      participant == IF participantByPhone(normalizedPhone) # NoParticipant
                     THEN participantByPhone(normalizedPhone)
                     ELSE participantByPhone(phoneWithPlus)
  IN IF participant # NoParticipant
     THEN StoreToken(rows, messageId, participant, pEvent[participant],
                     normalizedPhone, "status_update")
     ELSE rows

StStore(h, dbok) ==
  LET hd == h
  IN /\ hd.kind = "status" /\ hd.pc = "sstore"
     /\ handlers' = Finish(h)
     /\ tokens' = IF dbok THEN findAndStoreStatusToken(tokens, hd.ctx, hd.from)
                   ELSE tokens
     /\ UNCHANGED <<attending, sent, pendingStores, storeDone, payloadOf, effects,
                    consumed, revision, lastRequest, svars, dvars, cvars>>

\* token exists: updateParticipantAttending(..., 'Not responded')
StNotResponded(h, dbok) ==
  LET hd == h
  IN /\ hd.kind = "status" /\ hd.pc = "snr"
     /\ handlers' = Finish(h)
     /\ attending' = IF dbok
                      THEN updateParticipantAttending(attending, hd.tok.participantId,
                                                      hd.tok.eventId, "Not responded")
                      ELSE attending
     /\ UNCHANGED <<tokens, sent, pendingStores, storeDone, payloadOf, effects,
                    consumed, revision, lastRequest, svars, dvars, cvars>>

\* ------------------------------------------------- reminder scheduler: data
Window12Hours == 12

Window3Hours == 3

Tiers == {"12hours", "3hours"}

NullTime == "NULL"

SentTime == "NOW"

\* events rows: s1 and s2 are active and upcoming, s3 is inactive
SEvents == {"s1", "s2", "s3"}

eventDateTime == [e \in SEvents |-> IF e = "s1" THEN 2 ELSE IF e = "s2" THEN 5 ELSE 3]

isActive == [e \in SEvents |-> e # "s3"]

venue == [e \in SEvents |-> <<"H", "a", "l", "l">>]

\* event_participants rows of those events; every row has a name, c's phone
\* number is too short to pass the format check
SParticipants == {"a", "c", "d"}

sEvent == [p \in SParticipants |-> IF p \in {"a", "d"} THEN "s1" ELSE "s2"]

NoPair == <<"none", "none">>

sName == [p \in SParticipants |-> <<p>>]

sPhone == [p \in SParticipants |->
             CASE p = "a" -> <<"0", "9", "1", "2", "3", "4", "5", "6", "7", "8", "9">>
               [] p = "c" -> <<"1", "2", "3", "4", "5">>
               [] OTHER -> <<"+", "1", "4", "1", "5", "5", "5", "5", "0", "1", "0", "0">>]

Responses == {"id", "noid", "blocked", "error"}

\* ------------------------------------------------ reminder scheduler: queries
windowOf(tier) == IF tier = "12hours" THEN Window12Hours ELSE Window3Hours

\* WHERE "eventDateTime" > NOW() AND "eventDateTime" <= NOW() + INTERVAL '..'
\*   AND "isActive" = true
eventsDue(tier) ==
  {e \in SEvents : /\ eventDateTime[e] > now
                   /\ eventDateTime[e] <= now + windowOf(tier)
                   /\ isActive[e]}

RECURSIVE orderByEventDateTime(_)
\* ORDER BY "eventDateTime" ASC
orderByEventDateTime(S) ==
  IF S = {} THEN <<>>
  ELSE LET e == CHOOSE x \in S : \A y \in S : eventDateTime[x] <= eventDateTime[y]
       IN <<e>> \o orderByEventDateTime(S \ {e})

\* a query that wants both tier columns NULL
participantsNeedingBoth(e, tier) ==
  {p \in SParticipants : /\ sEvent[p] = e
                         /\ sPhone[p] # <<>>
                         /\ \A x \in Tiers : reminderAt[x][p] = NullTime}

\* WHERE "eventId" = $1 AND "phoneNumber" IS NOT NULL AND "phoneNumber" != ''
\*   AND "<reminderField>" IS NULL
participantsNeeding(e, tier) ==
  {p \in SParticipants : /\ sEvent[p] = e
                         /\ sPhone[p] # <<>>
                         /\ reminderAt[tier][p] = NullTime}

\* the rows of a query without ORDER BY come in any order
Orderings(S) ==
  {f \in [1..Cardinality(S) -> S] : \A x \in S : \E i \in 1..Cardinality(S) : f[i] = x}

\* ------------------------------------------- reminder scheduler: tick control
NewTick ==
  [pc |-> "events", tier |-> "12hours", events |-> <<>>, ei |-> 0,
   parts |-> <<>>, pi |-> 0, skipped |-> FALSE]

\* handleEventReminders: handle12HourReminders, then handle3HourReminders, then done
\* (skipped records that the tier is left with events still unvisited)
nextTier(t) ==
  LET u == [t EXCEPT !.skipped = @ \/ t.ei < Len(t.events)]
  IN IF t.tier = "12hours"
     THEN [u EXCEPT !.pc = "events", !.tier = "3hours", !.events = <<>>, !.ei = 0,
                    !.parts = <<>>, !.pi = 0]
     ELSE [u EXCEPT !.pc = "end", !.events = <<>>, !.ei = 0, !.parts = <<>>,
                    !.pi = 0]

\* for (const event of events) { await this.sendRemindersForEvent(event, ..) }
\* (skipped records that the event is left with participants still uncalled)
nextEvent(t) ==
  LET u == [t EXCEPT !.skipped = @ \/ t.pi < Len(t.parts)]
  IN IF t.ei < Len(t.events)
     THEN [u EXCEPT !.pc = "participants", !.ei = @ + 1, !.parts = <<>>, !.pi = 0]
     ELSE nextTier([u EXCEPT !.parts = <<>>, !.pi = 0])

\* for (const participant of participants) { await this.send..(participant, event) }
nextParticipant(t) ==
  IF t.pi < Len(t.parts)
  THEN [t EXCEPT !.pc = "send", !.pi = @ + 1]
  ELSE nextEvent(t)

\* an error handler that rethrows: the error reaches the catch of
\* sendRemindersForEvent, which goes on to the next event
handleReminderErrorRethrow(t) == nextEvent(t)

\* handleReminderError: logs; does not mark, does not throw
handleReminderError(t) == nextParticipant(t)

\* any response counts as sent
hasAnyResponse(response) == response \in {"id", "noid"}

\* no response counts as sent
hasNoMessageId(response) == FALSE

\* if (response.messages?.[0]?.id)
hasMessageId(response) == response = "id"

\* !participant.name || !event.eventName (|| !event.venue for the 3-hour tier)
hasRequiredData(p, e, tier) ==
  /\ sName[p] # <<>>
  /\ e # ""
  /\ tier = "3hours" => venue[e] # <<>>

StartTick(t) == ticks (+) SetToBag({t})

StepTick(t, u) == (ticks (-) SetToBag({t})) (+) SetToBag({u})

\* ------------------------------------------------ reminder scheduler: steps
\* onModuleInit: the first handleEventReminders() is started and awaited
OnModuleInit ==
  /\ phase = "constructed"
  /\ phase' = "initial"
  /\ ticks' = StartTick(NewTick)
  /\ UNCHANGED <<now, reminderAt, healthy, idReturned, lastFailed, wvars, dvars, cvars>>

\* onModuleInit after the awaited first tick: setInterval(..., CHECK_INTERVAL)
InstallInterval ==
  /\ phase \in {"initial", "initialDestroyed"}
  /\ ticks = EmptyBag
  /\ phase' = IF phase = "initial" THEN "running" ELSE "runningDestroyed"
  /\ UNCHANGED <<now, reminderAt, ticks, healthy, idReturned, lastFailed, wvars, dvars, cvars>>

\* the interval callback: void this.handleEventReminders().catch(...); it does
\* not look at executions still in flight
IntervalFire ==
  /\ phase \in {"running", "runningDestroyed"}
  /\ BagCardinality(ticks) < MaxInFlight
  /\ ticks' = StartTick(NewTick)
  /\ UNCHANGED <<now, reminderAt, phase, healthy, idReturned, lastFailed, wvars, dvars, cvars>>

\* onModuleDestroy: if (this.intervalId) clearInterval(this.intervalId); while
\* onModuleInit still awaits the first tick intervalId is undefined and
\* nothing is cleared
OnModuleDestroy ==
  /\ phase \in {"initial", "running"}
  /\ phase' = IF phase = "running" THEN "stopped" ELSE "initialDestroyed"
  /\ UNCHANGED <<now, reminderAt, ticks, healthy, idReturned, lastFailed, wvars, dvars, cvars>>

\* handle12HourReminders / handle3HourReminders: the events query; a failed
\* query is caught and logged by the tier
QueryEvents(t, dbok) ==
  LET evs == orderByEventDateTime(eventsDue(t.tier))
  IN /\ t.pc = "events"
     /\ dbok \/ ~healthy
     /\ ticks' = StepTick(t,
          IF ~dbok THEN nextTier(t)
          ELSE IF evs = <<>> THEN nextTier(t)
          ELSE [t EXCEPT !.pc = "participants", !.events = evs, !.ei = 1])
     /\ UNCHANGED <<now, reminderAt, phase, healthy, idReturned, lastFailed, wvars, dvars, cvars>>

\* sendRemindersForEvent: the participants query; a failed query is caught and
\* logged by the event
QueryParticipants(t, dbok) ==
  /\ t.pc = "participants"
  /\ dbok \/ ~healthy
  /\ LET e == t.events[t.ei]
     IN \E participants \in Orderings(participantsNeeding(e, t.tier)) :
          ticks' = StepTick(t,
            IF ~dbok THEN nextEvent(t)
            ELSE IF participants = <<>> THEN nextEvent(t)
            ELSE [t EXCEPT !.pc = "send", !.parts = participants, !.pi = 1])
  /\ UNCHANGED <<now, reminderAt, phase, healthy, idReturned, lastFailed, wvars, dvars, cvars>>

\* send12HourReminderToParticipant / send3HourReminderToParticipant up to the
\* answer of sendTemplate: phone formatting and checks, then the provider
\* answers with a message id, answers without one, or the call throws
SendReminder(t, response) ==
  /\ t.pc = "send"
  /\ response = "id" \/ ~healthy
  /\ LET p == t.parts[t.pi]
         e == t.events[t.ei]
         pair == <<t.tier, p>>
         phoneNumber == inlineNormalize(sPhone[p])
     IN IF ~matchesE164(phoneNumber) \/ ~hasRequiredData(p, e, t.tier)
        THEN /\ ticks' = StepTick(t, nextParticipant(t))
             /\ UNCHANGED <<idReturned, lastFailed>>
        ELSE /\ ticks' = StepTick(t,
                  IF response \in {"blocked", "error"} THEN handleReminderError(t)
                  ELSE IF hasMessageId(response) THEN [t EXCEPT !.pc = "mark"]
                  ELSE nextParticipant(t))
             /\ idReturned' = IF response = "id" THEN idReturned \cup {pair}
                               ELSE idReturned
             /\ lastFailed' = IF response # "id" THEN pair ELSE lastFailed
  /\ UNCHANGED <<now, reminderAt, phase, healthy, wvars, dvars, cvars>>

\* UPDATE "event_participants" SET "<reminderField>" = NOW() WHERE "id" = $1
\* (the column is kept as NULL or SentTime: only its nullness is ever read);
\* a failed UPDATE throws into the same catch as a failed send
MarkReminderSent(t, dbok) ==
  /\ t.pc = "mark"
  /\ dbok \/ ~healthy
  /\ LET p == t.parts[t.pi]
     IN IF dbok
        THEN /\ reminderAt' = [reminderAt EXCEPT ![t.tier][p] = SentTime]
             /\ ticks' = StepTick(t, nextParticipant(t))
             /\ UNCHANGED lastFailed
        ELSE /\ ticks' = StepTick(t, handleReminderError(t))
             /\ lastFailed' = <<t.tier, p>>
             /\ UNCHANGED reminderAt
  /\ UNCHANGED <<now, phase, healthy, idReturned, wvars, dvars, cvars>>

\* handleEventReminders resolves
TickEnd(t) ==
  /\ t.pc = "end"
  /\ ticks' = ticks (-) SetToBag({t})
  /\ UNCHANGED <<now, reminderAt, phase, healthy, idReturned, lastFailed, wvars, dvars, cvars>>

\* an hour passes
AdvanceTime ==
  /\ now < MaxNow
  /\ now' = now + 1
  /\ UNCHANGED <<reminderAt, ticks, phase, healthy, idReturned, lastFailed, wvars, dvars, cvars>>

\* the provider restriction is lifted and the database is reachable from now on
Recover ==
  /\ ~healthy
  /\ healthy' = TRUE
  /\ UNCHANGED <<now, reminderAt, ticks, phase, idReturned, lastFailed, wvars, dvars, cvars>>

\* ------------------------------------------- dispatcher: retryWithBackoff
maxRetries == 3
baseDelay == 1000

\* details.whatsappErrorCode of the ExternalServiceException sendTemplate
\* throws: the provider's error code as a string of digits; a network error
\* carries details without that key
NoCode == <<>>

permanentErrors ==
  << <<"1", "9", "0">>,
     <<"1", "3", "2", "0", "0", "1">>,
     <<"1", "3", "1", "0", "0", "8">>,
     <<"1", "3", "2", "0", "0", "0">>,
     <<"1", "0", "0">> >>

rateLimitCodes ==
  << <<"8", "0", "0", "0", "7">>,
     <<"8", "0", "0", "0", "8">>,
     <<"8", "0", "0", "0", "9">> >>

\* other codes the provider returns: 131000 (something went wrong), 131026
\* (message undeliverable), 130429 (throughput reached), 368 (temporarily
\* blocked)
OtherCodes ==
  { <<"1", "3", "1", "0", "0", "0">>,
    <<"1", "3", "1", "0", "2", "6">>,
    <<"1", "3", "0", "4", "2", "9">>,
    <<"3", "6", "8">> }

Range(f) == {f[i] : i \in DOMAIN f}

\* the errors fn() rejects with: the code and whether the message text itself
\* contains 'rate limit' or 'too many requests'
SendErrors ==
  {[code |-> c, rateLimitMessage |-> FALSE] :
     c \in Range(permanentErrors) \cup Range(rateLimitCodes) \cup OtherCodes \cup {NoCode}}
  \cup {[code |-> <<"1", "3", "0", "4", "2", "9">>, rateLimitMessage |-> TRUE]}

NoError == [code |-> <<"-">>, rateLimitMessage |-> FALSE]

neverPermanent(error) == FALSE

\* permanentErrors.some((code) => whatsappErrorCode.includes(code)), inside
\* the block guarded by 'whatsappErrorCode' in error.details
isPermanentError(error) ==
  /\ error.code # NoCode
  /\ \E i \in DOMAIN permanentErrors : includes(error.code, permanentErrors[i])

isRateLimitError(error) ==
  \/ error.rateLimitMessage
  \/ /\ error.code # NoCode
     /\ \E i \in DOMAIN rateLimitCodes : includes(error.code, rateLimitCodes[i])

flatDelay(attempt, rateLimited) == baseDelay

\* baseDelay * Math.pow(2, attempt), times 5 for a rate-limit error
backoffDelay(attempt, rateLimited) ==
  IF rateLimited THEN baseDelay * (2 ^ attempt) * 5 ELSE baseDelay * (2 ^ attempt)

IdleRetry == [state |-> "idle", attempt |-> 0, calls |-> 0, errors |-> <<>>,
              delays |-> <<>>, thrown |-> NoError]

\* retryWithBackoff(fn) is called: for (let attempt = 1; ...
RetryStart ==
  /\ retry.state \in {"idle", "resolved", "thrown"}
  /\ retry' = [IdleRetry EXCEPT !.state = "calling", !.attempt = 1]
  /\ UNCHANGED <<dispatch, verify, wvars, svars, cvars>>

\* one iteration: await fn(); on rejection the catch block classifies the
\* error, rethrows it or starts the backoff delay
RetryCall(outcome) ==
  /\ retry.state = "calling"
  /\ outcome \in SendErrors \cup {NoError}
  /\ retry' =
       IF outcome = NoError
       THEN [retry EXCEPT !.state = "resolved", !.calls = @ + 1]
       ELSE IF isPermanentError(outcome) \/ retry.attempt = maxRetries
       THEN [retry EXCEPT !.state = "thrown", !.calls = @ + 1,
                          !.errors = Append(@, outcome), !.thrown = outcome]
       ELSE [retry EXCEPT !.state = "delaying", !.calls = @ + 1,
                          !.errors = Append(@, outcome),
                          !.delays = Append(@, backoffDelay(retry.attempt,
                                                            isRateLimitError(outcome)))]
  /\ UNCHANGED <<dispatch, verify, wvars, svars, cvars>>

\* await delay(backoffDelay) resolves; attempt++
RetryDelayElapsed ==
  /\ retry.state = "delaying"
  /\ retry' = [retry EXCEPT !.state = "calling", !.attempt = @ + 1]
  /\ UNCHANGED <<dispatch, verify, wvars, svars, cvars>>

\* ------------------------------------------------- dispatcher: sendTemplate
\* payload.to: missing, a national number, E.164, E.164 written with spaces
\* and a dash, and two numbers too short for ^\+\d{10,15}$
Destinations ==
  { <<>>,
    <<"9", "1", "2", "3", "4", "5", "6", "7", "8", "9">>,
    <<"+", "9", "1", "9", "1", "2", "3", "4", "5", "6", "7", "8", "9">>,
    <<"+", "9", "1", " ", "9", "1", "2", "3", "4", "-", "5", "6", "7", "8", "9">>,
    <<"1", "2", "3", "4", "5">>,
    <<"+", "1", "2">> }

\* payload.template: absent, present without a name, or a named template
Templates == {"noTemplate", "noName", "booking_confirmation", "event_reminder_12h"}

\* what the provider does with a request: 2xx with a message id, 2xx without,
\* or an error
ProviderReplies ==
  {[kind |-> k, error |-> NoError] : k \in {"id", "noid"}}
  \cup {[kind |-> "error", error |-> e] : e \in SendErrors}

NoReply == [kind |-> "none", error |-> NoError]

IdleDispatch == [to |-> <<>>, template |-> "noTemplate", requests |-> 0,
                 sentTo |-> <<>>, reply |-> NoReply, outcome |-> "none"]

\* !payload.to || !payload.template?.name
missingRequiredFields(to, template) ==
  to = <<>> \/ template \in {"noTemplate", "noName"}

\* the destination sendTemplate derives: digits and '+' only, '+91' prefixed
\* when there is no '+'
normalizedDestination(to) ==
  LET phoneNumber == replaceNonDigitPlus(to)
  IN IF startsWith(phoneNumber, <<"+">>) THEN phoneNumber ELSE CountryCode \o phoneNumber

\* payload.to as posted: replaced only when the '+91' prefix was added
postedDestination(to) ==
  IF startsWith(replaceNonDigitPlus(to), <<"+">>) THEN to ELSE normalizedDestination(to)

\* WhatsAppService.sendTemplate(payload): validation, axios.post, and what the
\* caller gets. response.data is returned for every 2xx, with or without a
\* message id; every failure leaves as an exception.
SendTemplate(to, template, reply) ==
  /\ to \in Destinations
  /\ template \in Templates
  /\ reply \in ProviderReplies
  /\ dispatch' =
       IF missingRequiredFields(to, template)
       THEN [to |-> to, template |-> template, requests |-> 0, sentTo |-> <<>>,
             reply |-> NoReply, outcome |-> "threw"]
       ELSE [to |-> to, template |-> template, requests |-> 1,
             sentTo |-> postedDestination(to), reply |-> reply,
             outcome |-> IF reply.kind = "error" THEN "threw" ELSE "returned"]
  /\ UNCHANGED <<retry, verify, wvars, svars, cvars>>

\* ------------------------------------------------ webhook verification (GET)
\* process.env.WA_WEBHOOK_VERIFY_TOKEN: unset (or empty), or set
EnvTokens == {"", "s3cret"}

DefaultVerifyToken == "miosync_webhook_verify_token"

\* the query parameters; "undefined" stands for an absent parameter
Modes == {"subscribe", "unsubscribe", "undefined"}

QueryTokens == {"s3cret", "miosync_webhook_verify_token", "guess", "undefined"}

Challenges == {"1158201444", "0", "abc", "", "undefined"}

\* process.env.WA_WEBHOOK_VERIFY_TOKEN || 'miosync_webhook_verify_token'
VERIFY_TOKEN(env) == IF env = "" THEN DefaultVerifyToken ELSE env

tokenMatches(mode, token, env) == token = VERIFY_TOKEN(env)

\* mode === 'subscribe' && token === VERIFY_TOKEN
verified(mode, token, env) == mode = "subscribe" /\ token = VERIFY_TOKEN(env)

IdleVerify == [env |-> "", mode |-> "undefined", token |-> "undefined",
               challenge |-> "undefined", status |-> 0, body |-> ""]

\* WhatsAppController.verifyWebhook
VerifyWebhook(env, mode, token, challenge) ==
  /\ env \in EnvTokens
  /\ mode \in Modes
  /\ token \in QueryTokens
  /\ challenge \in Challenges
  /\ verify' =
       IF verified(mode, token, env)
       THEN [env |-> env, mode |-> mode, token |-> token, challenge |-> challenge,
             status |-> 200, body |-> challenge]
       ELSE [env |-> env, mode |-> mode, token |-> token, challenge |-> challenge,
             status |-> 403, body |-> "Forbidden"]
  /\ UNCHANGED <<retry, dispatch, wvars, svars, cvars>>

\* ------------------------------------------- bulk creation: create + batch
MaxRows == 2          \* rows in one upload

\* "phoneNumber" cells of an upload: none, ten digits, country code without
\* '+', and a fragment
RowPhones ==
  { <<>>,
    <<"9", "1", "2", "3", "4", "5", "6", "7", "8", "9">>,
    <<"9", "1", "9", "1", "2", "3", "4", "5", "6", "7", "8", "9">>,
    <<"1", "2", "3">> }

Uploads == UNION {[1..n -> RowPhones] : n \in 1..MaxRows}

\* INSERT INTO "event_participants" ... RETURNING *
insertReturning(data) == [i \in 1..Len(data) |-> [id |-> i, phoneNumber |-> data[i]]]

NoResult == [status |-> "pending", rows |-> <<>>]

IdleBulk ==
  [table |-> <<>>, result |-> NoResult, batch |-> "none", i |-> 0,
   eventName |-> FALSE, successCount |-> 0, failureCount |-> 0,
   sentTo |-> <<>>, stores |-> 0, stored |-> 0, logged |-> 0, gap |-> "start"]

EventLookups == {"found", "unnamed", "missing", "throws"}
SendOutcomes == {"id", "noId", "throws"}

\* the inline phone formatting of sendReminderMessages
bulkNormalize(raw) ==
  LET a == replaceNonDigitPlus(raw)
      b == IF startsWith(a, <<"0">>) /\ ~startsWith(a, <<"+">>) THEN substring1(a) ELSE a
  IN IF ~startsWith(b, <<"+">>) THEN <<"+", "9", "1">> \o b ELSE b

\* the checks of sendReminderMessages that skip a participant before any send
bulkSkips(participant, eventName) ==
  \/ participant.phoneNumber = <<>>
  \/ Len(bulkNormalize(participant.phoneNumber)) < 12
  \/ ~matchesE164(bulkNormalize(participant.phoneNumber))
  \/ ~eventName

\* the batch awaited inside create: its rejection becomes create's
awaitedBatch(b) ==
  [b EXCEPT !.batch = "done", !.result = [status |-> "rejected", rows |-> <<>>]]

\* this.sendReminderMessages(...).catch(error => this.logger.error(...))
detachedCatch(b) == [b EXCEPT !.batch = "done", !.logged = @ + 1]

\* EventParticipantsService.create(data, eventId): the INSERT is awaited, then
\* sendReminderMessages is started with a .catch and the rows are returned.
\* A failing INSERT rejects create before any batch exists.
Create(data, dbok) ==
  /\ bulk.result = NoResult
  /\ data \in Uploads
  /\ bulk' = IF dbok
             THEN [bulk EXCEPT !.table = insertReturning(data),
                               !.result = [status |-> "resolved",
                                           rows |-> insertReturning(data)],
                               !.batch = "lookup"]
             ELSE [bulk EXCEPT !.result = [status |-> "rejected", rows |-> <<>>]]
  /\ UNCHANGED <<phone, button, record, logged, wvars, svars, dvars>>

\* sendReminderMessages, up to the loop: SELECT * FROM "events" WHERE id = $1.
\* No row: warn and return.  A throwing query rejects the detached promise,
\* which create's .catch logs.
BatchLookup(outcome) ==
  /\ bulk.batch = "lookup"
  /\ outcome \in EventLookups
  /\ bulk' = CASE outcome = "found" ->
                    [bulk EXCEPT !.batch = "loop", !.i = 1, !.eventName = TRUE]
               [] outcome = "unnamed" ->
                    [bulk EXCEPT !.batch = "loop", !.i = 1, !.eventName = FALSE]
               [] outcome = "missing" -> [bulk EXCEPT !.batch = "done"]
               [] OTHER -> detachedCatch(bulk)
  /\ UNCHANGED <<phone, button, record, logged, wvars, svars, dvars>>

\* one iteration of the loop of sendReminderMessages: the skips, the send
\* through retryWithBackoff, the detached storeMessageToken, the delay at the
\* end of the try block, the catch (gap records what the batch did last: a
\* provider call, or the delay after one)
BatchParticipant(outcome) ==
  /\ bulk.batch = "loop"
  /\ outcome \in SendOutcomes
  /\ LET participant == bulk.table[bulk.i]
         phoneNumber == bulkNormalize(participant.phoneNumber)
         after == [bulk EXCEPT !.i = @ + 1,
                               !.batch = IF bulk.i = Len(bulk.table) THEN "done" ELSE "loop"]
     IN bulk' =
          IF bulkSkips(participant, bulk.eventName)
          THEN [after EXCEPT !.failureCount = @ + 1]
          ELSE CASE outcome = "id" ->
                      [after EXCEPT !.successCount = @ + 1, !.stores = @ + 1,
                                    !.gap = IF bulk.i < Len(bulk.table)
                                            THEN "delay" ELSE "call",
                                    !.sentTo = Append(@, [id |-> participant.id,
                                                          to |-> postedDestination(phoneNumber)])]
                 [] outcome = "noId" ->
                      [after EXCEPT !.failureCount = @ + 1, !.gap = "call",
                                    !.sentTo = Append(@, [id |-> participant.id,
                                                          to |-> postedDestination(phoneNumber)])]
                 [] OTHER -> [after EXCEPT !.failureCount = @ + 1, !.gap = "call"]
  /\ UNCHANGED <<phone, button, record, logged, wvars, svars, dvars>>

\* a detached storeMessageToken of the batch settles (a failure is logged)
BatchStore(dbok) ==
  /\ bulk.stores > 0
  /\ bulk' = IF dbok
             THEN [bulk EXCEPT !.stores = @ - 1, !.stored = @ + 1]
             ELSE [bulk EXCEPT !.stores = @ - 1, !.logged = @ + 1]
  /\ UNCHANGED <<phone, button, record, logged, wvars, svars, dvars>>

\* ------------------------------------------------------- phone normalizer
MaxDigits == 17       \* digits in the longest generated input

DefaultCountryCodes == {<<"9", "1">>, <<"1">>, <<"4", "4">>, <<"9", "7", "1">>}

TenDigits == <<"9", "1", "2", "3", "4", "5", "6", "7", "8", "9">>

\* the first n digits of 9123456789 9123456789 ...
Body(n) == [i \in 1..n |-> TenDigits[((i - 1) % Len(TenDigits)) + 1]]

Prefixes == {<<>>, <<"0">>, <<"+">>, <<"+", "9", "1">>, <<"9", "1">>, <<"+", "1">>}

\* entered forms: with separators, blank, and with a second '+'
Decorated ==
  { <<"0", "9", "1", "2", "3", "4", "-", "5", "6", "7", "8", "9">>,
    <<"+", "9", "1", " ", "9", "1", "2", "3", "4", "-", "5", "6", "7", "8", "9">>,
    <<" ", " ">>,
    <<"+", "9", "1", "+", "9", "1", "2", "3", "4", "5", "6", "7", "8", "9">> }

PhoneInputs == {pre \o Body(n) : pre \in Prefixes, n \in 0..MaxDigits} \cup Decorated

NoValidation == [isValid |-> FALSE, normalized |-> <<>>, error |-> "notRun"]

\* a normalizer without the "Add + prefix if missing" test: the '+' is dropped
\* and the country code prefixed every time
normalizeAlwaysPrefix(phoneNumber, defaultCountryCode) ==
  LET a == SelectSeq(phoneNumber, LAMBDA c : c \in Digit)
      c == <<"+">> \o defaultCountryCode \o a
  IN IF phoneNumber = <<>>
     THEN [isValid |-> FALSE, normalized |-> <<>>, error |-> "required"]
     ELSE IF ~matchesE164(c)
     THEN [isValid |-> FALSE, normalized |-> c, error |-> "e164"]
     ELSE IF startsWith(c, <<"+", "9", "1">>) /\ Len(c) # 13
     THEN [isValid |-> FALSE, normalized |-> c, error |-> "indianLength"]
     ELSE [isValid |-> TRUE, normalized |-> c, error |-> "none"]

\* validateAndNormalizePhoneNumber(phoneNumber, defaultCountryCode = '91')
validateAndNormalizePhoneNumber(phoneNumber, defaultCountryCode) ==
  LET a == replaceNonDigitPlus(phoneNumber)
      b == IF startsWith(a, <<"0">>) /\ ~startsWith(a, <<"+">>) THEN substring1(a) ELSE a
      c == IF ~startsWith(b, <<"+">>) THEN <<"+">> \o defaultCountryCode \o b ELSE b
  IN IF phoneNumber = <<>>
     THEN [isValid |-> FALSE, normalized |-> <<>>, error |-> "required"]
     ELSE IF a = <<>>
     THEN [isValid |-> FALSE, normalized |-> <<>>, error |-> "empty"]
     ELSE IF ~matchesE164(c)
     THEN [isValid |-> FALSE, normalized |-> c, error |-> "e164"]
     ELSE IF startsWith(c, <<"+", "9", "1">>) /\ Len(c) # 13
     THEN [isValid |-> FALSE, normalized |-> c, error |-> "indianLength"]
     ELSE [isValid |-> TRUE, normalized |-> c, error |-> "none"]

\* the inline phone formatting of send12HourReminderToParticipant and
\* send3HourReminderToParticipant
reminderNormalize(raw) ==
  LET a == replaceNonDigitPlus(raw)
      b == IF startsWith(a, <<"0">>) /\ ~startsWith(a, <<"+">>) THEN substring1(a) ELSE a
  IN IF ~startsWith(b, <<"+">>) THEN <<"+", "9", "1">> \o b ELSE b

\* the places of the dispatch paths that format a destination themselves
InlineSites == {"booking", "bulk", "reminder", "sendTemplate"}

inlineAt(site, raw) ==
  CASE site = "booking" -> inlineNormalize(raw)
    [] site = "bulk" -> bulkNormalize(raw)
    [] site = "reminder" -> reminderNormalize(raw)
    [] OTHER -> normalizedDestination(raw)

\* whether the site goes on to send to the formatted destination
inlineSends(site, raw) ==
  CASE site = "bulk" -> ~bulkSkips([id |-> 1, phoneNumber |-> raw], TRUE)
    [] site = "sendTemplate" -> raw # <<>>
    [] OTHER -> matchesE164(inlineAt(site, raw))

IdlePhone ==
  [input |-> <<>>, cc |-> <<"9", "1">>, at |-> "none", isValid |-> FALSE,
   normalized |-> <<>>, error |-> "notRun", again |-> NoValidation]

\* validateAndNormalizePhoneNumber is applied to the input
Normalize ==
  /\ phone.at = "none"
  /\ LET r == validateAndNormalizePhoneNumber(phone.input, phone.cc)
     IN phone' = [phone EXCEPT !.at = "normalizer", !.isValid = r.isValid,
                               !.normalized = r.normalized, !.error = r.error]
  /\ UNCHANGED <<bulk, button, record, logged, wvars, svars, dvars>>

\* a dispatch path formats the input in place (the prefix is always +91)
InlineNormalize(site) ==
  /\ phone.at = "none"
  /\ phone.cc = <<"9", "1">>
  /\ site \in InlineSites
  /\ phone' = [phone EXCEPT !.at = site, !.isValid = inlineSends(site, phone.input),
                            !.normalized = inlineAt(site, phone.input),
                            !.error = "none"]
  /\ UNCHANGED <<bulk, button, record, logged, wvars, svars, dvars>>

\* the normalizer is applied again to the canonical string it returned
NormalizeAgain ==
  /\ phone.at = "normalizer"
  /\ phone.isValid
  /\ phone.again = NoValidation
  /\ phone' = [phone EXCEPT !.again = validateAndNormalizePhoneNumber(phone.normalized, phone.cc)]
  /\ UNCHANGED <<bulk, button, record, logged, wvars, svars, dvars>>

\* ---------------------------------------------------- attendance decision
ButtonTitles ==
  { Yes, No,
    <<"Y", "E", "S">>, <<"y", "e", "s">>, <<"N", "O">>, <<"n", "o">>,
    <<"Y", "e", "s", "!">>, <<"N", "o", "p", "e">>,
    <<"M", "a", "y", "b", "e">>, <<"Y", "e", "a", "h">> }

ReplyButtonIds ==
  { <<"b", "t", "n", "1">>, <<"y", "e", "s">>, <<"n", "o">>,
    <<"Y", "E", "S", "_", "1">>, <<"o", "p", "t", "_", "n", "o">> }

Dropped == "dropped"

\* the attendance a reply is turned into, lower-cased: the msg.type = 'button'
\* branch of handleWebhook (buttonText === 'Yes' || buttonText === 'No', then
\* buttonText === 'Yes' ? 'Yes' : 'No'; the button id is not read), and
\* handleButtonResponseByMessageId for interactive.button_reply
decide(shape, title, bid) ==
  IF shape = "button"
  THEN IF title = Yes THEN "yes" ELSE IF title = No THEN "no" ELSE Dropped
  ELSE IF attendingStatusOf(title, bid) = NullAttending
       THEN Dropped
       ELSE attendingStatusOf(title, bid)

IdleButton == [shape |-> "none", title |-> <<>>, bid |-> <<>>, decision |-> "notRun"]

ButtonReplies ==
  {[IdleButton EXCEPT !.shape = "button", !.title = t] : t \in ButtonTitles}
    \cup {[IdleButton EXCEPT !.shape = "interactive", !.title = t, !.bid = b] :
            t \in ButtonTitles, b \in ReplyButtonIds}

\* the webhook reaches the attendance decision for the reply
Decide ==
  /\ button.shape # "none"
  /\ button.decision = "notRun"
  /\ button' = [button EXCEPT !.decision = decide(button.shape, button.title, button.bid)]
  /\ UNCHANGED <<bulk, phone, record, logged, wvars, svars, dvars>>

\* ------------------------------------- webhook: classification of a record
\* what the messages loop reads of a record (an object of the messages array):
\* msg.type, whether msg.button.text is a string, msg.interactive (absent, a
\* button_reply with its button_reply object, or another interactive type),
\* whether msg.text.body and msg.from are there
RecordTypes == {"button", "interactive", "text", "image"}
InteractiveKinds == {"none", "button_reply", "other"}

IdleRecord == [type |-> "none", buttonText |-> FALSE, interactive |-> "none",
               text |-> FALSE, from |-> FALSE, events |-> <<"notRun">>]

Records ==
  {[IdleRecord EXCEPT !.type = t, !.buttonText = b, !.interactive = i,
                      !.text = x, !.from = f] :
     t \in RecordTypes, b \in BOOLEAN, i \in InteractiveKinds,
     x \in BOOLEAN, f \in BOOLEAN}

\* a loop body of three separate if statements instead of if / else if / else
classifyIndependently(rec) ==
  (IF rec.type = "button" /\ rec.buttonText THEN <<"button">> ELSE <<>>)
    \o (IF rec.interactive = "button_reply" THEN <<"interactive">> ELSE <<>>)
    \o (IF rec.text /\ rec.from THEN <<"text">> ELSE <<>>)

\* the branch of the messages loop a record takes, as the handlers it reaches:
\* the button branch, handleButtonResponse, or handleIncomingTextMessage
classify(rec) ==
  IF rec.type = "button" /\ rec.buttonText
  THEN <<"button">>
  ELSE IF rec.interactive # "none"
       THEN IF rec.interactive = "button_reply" THEN <<"interactive">> ELSE <<>>
       ELSE IF rec.text /\ rec.from THEN <<"text">> ELSE <<>>

\* the messages loop handles the record
Classify ==
  /\ record.type # "none"
  /\ record.events = <<"notRun">>
  /\ record' = [record EXCEPT !.events = classify(record)]
  /\ UNCHANGED <<bulk, phone, button, logged, wvars, svars, dvars>>

\* ------------------------------- webhook: statuses of a record with messages
\* the rid of a status handler started by a record that also has messages
\* (status handlers of a record without messages carry 0)
WithMessages == MaxReplies + 1

\* a statuses branch that does not look at hasMessages
statusesAlwaysProcessed(hasStatuses, hasMessages) ==
  IF hasStatuses THEN "process" ELSE "none"

\* if (Array.isArray(statuses) && !hasMessages) {...}
\* else if (Array.isArray(statuses) && hasMessages) {log}
statusesBranch(hasStatuses, hasMessages) ==
  IF hasStatuses /\ ~hasMessages THEN "process"
  ELSE IF hasStatuses /\ hasMessages THEN "logOnly"
  ELSE "none"

\* a change record whose value has a text message and a status of message m
DeliverMixed(m, dbok) ==
  LET tokenData == IF dbok THEN findParticipantByMessageId(tokens, m) ELSE NoTok
      recipientId == WaId(sent[m].to)
  IN /\ BagCardinality(handlers) < MaxHandlers
     /\ m \in 1..Len(sent)
     /\ handlers' =
          IF statusesBranch(TRUE, TRUE) = "process"
          THEN Spawn([kind |-> "status",
                      pc |-> IF tokenData = NoTok THEN "sstore" ELSE "snr",
                      rid |-> WithMessages, from |-> replaceNonDigitPlus(recipientId),
                      text |-> <<>>, bid |-> <<>>, ctx |-> m, tok |-> tokenData])
          ELSE handlers
     /\ logged' = logged \cup {m}
     /\ lastRequest' = handleWebhook("text")
     /\ UNCHANGED <<tokens, attending, sent, pendingStores, storeDone, payloadOf,
                    effects, consumed, revision, svars, dvars, bulk, phone, button,
                    record>>

InitDispatcher ==
  /\ retry = IdleRetry
  /\ dispatch = IdleDispatch
  /\ verify = IdleVerify
  /\ bulk = IdleBulk

\* no number is under normalization
InitIdlePhone == phone = IdlePhone

\* no reply is under decision
InitIdleButton == button = IdleButton

\* no record is under classification
InitIdleRecord == record = IdleRecord /\ logged = {}

\* ------------------------------------------------------------ specification
InitWebhook(rev) ==
  /\ tokens = {}
  /\ attending = [p \in Participants |-> NullAttending]
  /\ sent = <<>>
  /\ pendingStores = {}
  /\ storeDone = {}
  /\ handlers = EmptyBag
  /\ payloadOf = [r \in ReplyIds \cup {LaterReply} |-> NoPayload]
  /\ effects = [r \in ReplyIds |-> [tokens |-> {}, participants |-> {}]]
  /\ consumed = {}
  /\ revision = rev
  /\ lastRequest = NoRequest

InitScheduler ==
  /\ now = 0
  /\ reminderAt = [tier \in Tiers |-> [p \in SParticipants |-> NullTime]]
  /\ ticks = EmptyBag
  /\ phase = "constructed"
  /\ healthy = FALSE
  /\ idReturned = {}
  /\ lastFailed = NoPair

Init ==
  /\ InitWebhook("current") /\ InitScheduler /\ InitDispatcher
  /\ InitIdlePhone /\ InitIdleButton /\ InitIdleRecord

AllPayloads == ButtonPayloads(MsgIds) \cup InteractivePayloads

Next ==
  \/ \E p \in Participants : SendBookingConfirmation(p)
  \/ \E task \in pendingStores, dbok \in BOOLEAN : StoreRun(task, dbok)
  \/ \E rid \in ReplyIds, pl \in AllPayloads, dbok \in BOOLEAN :
       DeliverButton(rid, pl, dbok)
  \/ \E rid \in ReplyIds, pl \in AllPayloads, dbok \in BOOLEAN :
       DeliverInteractive(rid, pl, dbok)
  \/ \E m \in MsgIds, dbok \in BOOLEAN : DeliverStatus(m, dbok)
  \/ \E h \in BagToSet(handlers), dbok \in BOOLEAN : BtnUpdate(h, dbok)
  \/ \E h \in BagToSet(handlers), dbok \in BOOLEAN : BtnDelete(h, dbok)
  \/ \E h \in BagToSet(handlers), dbok \in BOOLEAN : IntResolve(h, dbok)
  \/ \E h \in BagToSet(handlers), dbok \in BOOLEAN : IntApply(h, dbok)
  \/ \E h \in BagToSet(handlers), dbok \in BOOLEAN : IntMark(h, dbok)
  \/ \E h \in BagToSet(handlers), dbok \in BOOLEAN : StStore(h, dbok)
  \/ \E h \in BagToSet(handlers), dbok \in BOOLEAN : StNotResponded(h, dbok)

Spec == Init /\ [][Next]_vars

\* the deployment of the revision of modules/whatsapp/whatsapp.service.ts; with
\* every token inserted as processed the legacy handler never gets past
\* handleButtonResponse, so its later steps are not part of this relation
InitPrev ==
  /\ InitWebhook("previous") /\ InitScheduler /\ InitDispatcher
  /\ InitIdlePhone /\ InitIdleButton /\ InitIdleRecord

NextPrev ==
  \/ \E p \in Participants : SendBookingConfirmation(p)
  \/ \E task \in pendingStores, dbok \in BOOLEAN : StoreRun(task, dbok)
  \/ \E rid \in ReplyIds, pl \in AllPayloads, dbok \in BOOLEAN :
       DeliverButton(rid, pl, dbok)
  \/ \E rid \in ReplyIds, pl \in AllPayloads, dbok \in BOOLEAN :
       DeliverInteractive(rid, pl, dbok)
  \/ \E m \in MsgIds, dbok \in BOOLEAN : DeliverStatus(m, dbok)
  \/ \E h \in BagToSet(handlers), dbok \in BOOLEAN : BtnUpdate(h, dbok)
  \/ \E h \in BagToSet(handlers), dbok \in BOOLEAN : BtnDelete(h, dbok)
  \/ \E h \in BagToSet(handlers), dbok \in BOOLEAN : StStore(h, dbok)
  \/ \E h \in BagToSet(handlers), dbok \in BOOLEAN : StNotResponded(h, dbok)

SpecPrev == InitPrev /\ [][NextPrev]_vars

\* the token store under its writers only: sends, detached stores and status
\* callbacks
NextStore ==
  \/ \E p \in Participants : SendBookingConfirmation(p)
  \/ \E task \in pendingStores, dbok \in BOOLEAN : StoreRun(task, dbok)
  \/ \E m \in MsgIds, dbok \in BOOLEAN : DeliverStatus(m, dbok)
  \/ \E h \in BagToSet(handlers), dbok \in BOOLEAN : StStore(h, dbok)
  \/ \E h \in BagToSet(handlers), dbok \in BOOLEAN : StNotResponded(h, dbok)

SpecStore == Init /\ [][NextStore]_vars

\* the reminder scheduler on its own
TickStep ==
  \/ \E t \in BagToSet(ticks), dbok \in BOOLEAN : QueryEvents(t, dbok)
  \/ \E t \in BagToSet(ticks), dbok \in BOOLEAN : QueryParticipants(t, dbok)
  \/ \E t \in BagToSet(ticks), response \in Responses : SendReminder(t, response)
  \/ \E t \in BagToSet(ticks), dbok \in BOOLEAN : MarkReminderSent(t, dbok)
  \/ \E t \in BagToSet(ticks) : TickEnd(t)

NextSched ==
  \/ OnModuleInit
  \/ InstallInterval
  \/ IntervalFire
  \/ \E t \in BagToSet(ticks), dbok \in BOOLEAN : QueryEvents(t, dbok)
  \/ \E t \in BagToSet(ticks), dbok \in BOOLEAN : QueryParticipants(t, dbok)
  \/ \E t \in BagToSet(ticks), response \in Responses : SendReminder(t, response)
  \/ \E t \in BagToSet(ticks), dbok \in BOOLEAN : MarkReminderSent(t, dbok)
  \/ \E t \in BagToSet(ticks) : TickEnd(t)
  \/ AdvanceTime
  \/ Recover

SpecSched == Init /\ [][NextSched]_vars

\* the timer firing when the previous execution finished within CHECK_INTERVAL
IntervalFireIdle == ticks = EmptyBag /\ IntervalFire

NextSchedIdle ==
  \/ OnModuleInit
  \/ InstallInterval
  \/ IntervalFireIdle
  \/ \E t \in BagToSet(ticks), dbok \in BOOLEAN : QueryEvents(t, dbok)
  \/ \E t \in BagToSet(ticks), dbok \in BOOLEAN : QueryParticipants(t, dbok)
  \/ \E t \in BagToSet(ticks), response \in Responses : SendReminder(t, response)
  \/ \E t \in BagToSet(ticks), dbok \in BOOLEAN : MarkReminderSent(t, dbok)
  \/ \E t \in BagToSet(ticks) : TickEnd(t)
  \/ AdvanceTime
  \/ Recover

\* executions that finish within the interval
SpecSchedIdle == Init /\ [][NextSchedIdle]_vars

\* the same, where the timer fires every CHECK_INTERVAL and the event loop
\* runs every continuation that is ready
SpecSchedFair ==
  /\ Init
  /\ [][NextSchedIdle]_vars
  /\ WF_vars(OnModuleInit)
  /\ WF_vars(InstallInterval)
  /\ WF_vars(IntervalFireIdle)
  /\ WF_vars(TickStep)

\* ------------------------------------------------------------------ claims
\* C1: delivering the identical "Yes" button reply payload again changes
\* nothing more than the first delivery did: all deliveries of one reply
\* together consume at most one token and update at most one participant.
C1_ReplaySafe ==
  \A rid \in ReplyIds :
    payloadOf[rid].text = Yes =>
      /\ Cardinality(effects[rid].tokens) <= 1
      /\ Cardinality(effects[rid].participants) <= 1

\* C2: once the send path's INSERT for message id M has executed, the token
\* of M (if any) carries the participantId, eventId and templateName the send
\* path supplied, whatever status callbacks were processed before it.
C2_SendPathDataKept ==
  \A m \in storeDone :
    \A r \in tokens :
      r.messageId = m =>
        /\ r.participantId = sent[m].participantId
        /\ r.eventId = sent[m].eventId
        /\ r.templateName = sent[m].templateName

\* C3: a message id whose token was marked processed or deleted never has an
\* unprocessed token again.
C3_OneWay ==
  \A r \in tokens : r.messageId \in consumed => r.isProcessed

C4_Step ==
  \A r \in tokens' :
    r.isProcessed =>
      \/ \E q \in tokens : q.messageId = r.messageId /\ q.isProcessed
      \/ /\ \E q \in tokens : q.messageId = r.messageId
         /\ \E h \in BagToSet(handlers) :
              /\ h.kind = "interactive"
              /\ h.pc = "mark"
              /\ h.tok.messageId = r.messageId

\* C4: a processed token appears only by the mark step of a reply handler that
\* matched that token and has applied the attendance update; in particular no
\* token is created processed.
C4_ProcessedOnlyByCorrelation == [][C4_Step]_vars

C5_AtMostOne ==
  \A r \in tokens : \A q \in tokens : r.messageId = q.messageId => r = q

C5_StoreStep ==
  \/ \E task \in pendingStores, dbok \in BOOLEAN : StoreRun(task, dbok)
  \/ \E h \in BagToSet(handlers), dbok \in BOOLEAN : StStore(h, dbok)

C5_NoOverwrite ==
  \A r \in tokens :
    \E q \in tokens' :
      /\ q.messageId = r.messageId
      /\ q.participantId = r.participantId
      /\ q.eventId = r.eventId
      /\ q.phoneNumber = r.phoneNumber
      /\ q.templateName = r.templateName
      /\ q.isProcessed = r.isProcessed

\* C5: at most one token exists per message id, and a storeMessageToken step
\* leaves every token that was already present unchanged in participantId,
\* eventId, phone, templateName and processed flag.
C5_PutIdempotent == []C5_AtMostOne /\ [][C5_StoreStep => C5_NoOverwrite]_vars

\* C5 witness: the send path's INSERT has executed for a message id that
\* already had a token written by the status callback, and that token stands.
C5_Witness ==
  \E m \in storeDone :
    \E r \in tokens :
      /\ r.messageId = m
      /\ r.templateName = "status_update"
      /\ r.participantId # sent[m].participantId

\* C6: per tier a participant is sent at most one reminder that the provider
\* accepted: whenever a send has just returned a message id and the tick is
\* about to write the tier timestamp, that timestamp is still NULL (no other
\* tick has already delivered and recorded the same tier for the participant).
C6_ExactlyOnce ==
  \A t \in BagToSet(ticks) :
    t.pc = "mark" => reminderAt[t.tier][t.parts[t.pi]] = NullTime

\* C7: at no time are two executions of handleEventReminders in progress.
C7_NoOverlap == BagCardinality(ticks) <= 1

\* C8: a tier timestamp is non-NULL only for a participant a send of that tier
\* returned a provider message id for.
C8_TimestampOnlyAfterId ==
  \A tier \in Tiers :
    \A p \in SParticipants :
      reminderAt[tier][p] # NullTime => <<tier, p>> \in idReturned

\* C8 witness: an attempt for one participant failed and left the timestamp
\* NULL, while a send that returned a message id set another timestamp.
C8_Witness ==
  /\ lastFailed # NoPair
  /\ reminderAt[lastFailed[1]][lastFailed[2]] = NullTime
  /\ \E tier \in Tiers : \E p \in SParticipants : reminderAt[tier][p] # NullTime

\* the participant is one the tier's queries select and whose send is attempted
Eligible(tier, p) ==
  /\ sEvent[p] \in eventsDue(tier)
  /\ sPhone[p] # <<>>
  /\ matchesE164(inlineNormalize(sPhone[p]))
  /\ hasRequiredData(p, sEvent[p], tier)

ValidParticipants ==
  {p \in SParticipants : matchesE164(inlineNormalize(sPhone[p]))}

\* C9: once sends and database writes succeed, a participant whose event is
\* active and inside the tier window and whose tier timestamp is NULL gets the
\* timestamp set (after the retries of later ticks), unless the event leaves
\* the window first.
C9_EventuallySent ==
  \A tier \in Tiers :
    \A p \in ValidParticipants :
      (healthy /\ Eligible(tier, p) /\ reminderAt[tier][p] = NullTime)
        ~> (reminderAt[tier][p] # NullTime \/ ~Eligible(tier, p))

\* C9 witness: after the failures stopped, the participant whose attempt
\* failed last has the tier timestamp set.
C9_Witness ==
  /\ healthy
  /\ lastFailed # NoPair
  /\ reminderAt[lastFailed[1]][lastFailed[2]] # NullTime

NextHttp ==
  \/ \E p \in Participants : SendBookingConfirmation(p)
  \/ \E m \in MsgIds, dbok \in BOOLEAN : DeliverStatus(m, dbok)
  \/ \E h \in BagToSet(handlers), dbok \in BOOLEAN : StStore(h, dbok)
  \/ \E h \in BagToSet(handlers), dbok \in BOOLEAN : StNotResponded(h, dbok)
  \/ \E shape \in OtherShapes : DeliverOther(shape)

SpecHttp == Init /\ [][NextHttp]_vars

\* C11: every POST to the webhook endpoint is answered with exactly one HTTP
\* 200, whatever the body (entry missing or not an array, malformed changes,
\* unknown shapes, a body that makes the loop throw) and whatever happens later
\* in the detached handlers it started: once a request was handled, the
\* statuses sent for the latest one are exactly <<200>>, and stay so while its
\* detached lookups, stores and updates succeed or fail.
C11_AlwaysOne200 ==
  /\ lastRequest.path = "none" => lastRequest.codes = <<>>
  /\ lastRequest.path # "none" => lastRequest.codes = <<200>>

\* a request whose loop threw was answered while detached work of an earlier
\* request was still in flight
C11_Witness ==
  /\ lastRequest.path = "caught"
  /\ lastRequest.codes = <<200>>
  /\ handlers # EmptyBag

\* ------------------------------------------------------------------- C12
\* a reply is delivered for the first time: a 'Yes' button message of the new
\* format without context id, from the subscriber a booking confirmation was
\* sent to, while the token of that send (the phone the send path derives from
\* the stored "9123456789", unprocessed) is in the store
C12_YesWithoutContext(rid) ==
  /\ payloadOf[rid] = NoPayload
  /\ payloadOf'[rid].kind = "button"
  /\ payloadOf'[rid].text = Yes
  /\ payloadOf'[rid].ctx = NoMsg
  /\ \E r \in tokens :
       /\ ~r.isProcessed
       /\ r.templateName = "booking_confirmation"
       /\ r.phoneNumber = inlineNormalize(<<"9", "1", "2", "3", "4", "5", "6", "7", "8", "9">>)
       /\ WaId(r.phoneNumber) = payloadOf'[rid].from

\* C12: end-to-end correlation. With the token {M, "+919123456789", processed
\* false} of a template send in the store, a 'Yes' button reply from that
\* subscriber carrying no usable context id is correlated through the
\* phone-based lookup: its delivery starts the handler that sets the
\* participant's attendance to yes and marks the token of M processed.
C12_PhoneFallbackCorrelates ==
  [][\A rid \in ReplyIds :
       C12_YesWithoutContext(rid) => \E h \in BagToSet(handlers') : h.rid = rid]_vars

\* ------------------------------------------------------------------- C13
\* the participants whose stored phone matches one of the three probe forms
C13_Matching(from) ==
  LET fs == phoneFormats(replaceNonDigitPlus(from))
  IN {p \in Participants :
        \E i \in 1..3 : sqlReplaceSpaceDash(pPhone[p]) = fs[i] \/ pPhone[p] = fs[i]}

\* a yes/no button_reply is delivered for the first time from a phone that has
\* no unprocessed token while exactly one participant matches the probe forms
C13_NoTokenOneParticipant(rid) ==
  /\ payloadOf[rid] = NoPayload
  /\ payloadOf'[rid].kind = "interactive"
  /\ payloadOf'[rid].text \in ButtonTexts
  /\ latestUnprocessedByPhone(tokens, replaceNonDigitPlus(payloadOf'[rid].from)) = NoTok
  /\ Cardinality(C13_Matching(payloadOf'[rid].from)) = 1

\* C13: correlator fallback. A yes/no button reply delivered to the webhook
\* from a phone for which no unprocessed token exists, while exactly one
\* participant's stored phone matches one of the three probe forms (raw,
\* '+'-prefixed, country-code-prefixed), gets that participant's attendance
\* updated: its delivery starts the handler that performs the update.
C13_FallbackUpdates ==
  [][\A rid \in ReplyIds :
       C13_NoTokenOneParticipant(rid) => \E h \in BagToSet(handlers') : h.rid = rid]_vars

\* ------------------------------------------------------------------- C14
NextRetry ==
  \/ RetryStart
  \/ \E outcome \in SendErrors \cup {NoError} : RetryCall(outcome)
  \/ RetryDelayElapsed

SpecRetry == Init /\ [][NextRetry]_vars

\* C14: a send that fails with a permanent provider code (190, 132001, 131008,
\* 132000, 100) is attempted exactly once: retryWithBackoff makes no further
\* call, waits for no backoff delay and rethrows that error to its caller.
C14_PermanentNotRetried ==
  (retry.errors # <<>> /\ retry.errors[1].code \in Range(permanentErrors))
    => /\ retry.state = "thrown"
       /\ retry.calls = 1
       /\ retry.delays = <<>>
       /\ retry.thrown = retry.errors[1]

C14_Witness ==
  /\ retry.state = "thrown"
  /\ retry.calls = 1
  /\ retry.errors # <<>>
  /\ retry.errors[1].code = permanentErrors[1]

\* ------------------------------------------------------------------- C15
\* C15: every send failure whose provider code is not one of the permanent
\* codes (rate-limit codes, any other provider code, network errors without a
\* code) is transient: a run of retryWithBackoff that ended by throwing after
\* such failures only has made exactly maxRetries attempts, has waited for a
\* backoff delay between consecutive attempts, and throws the last error.
C15_TransientRetriedToCap ==
  (/\ retry.state = "thrown"
   /\ \A i \in DOMAIN retry.errors : retry.errors[i].code \notin Range(permanentErrors))
    => /\ retry.calls = maxRetries
       /\ Len(retry.delays) = maxRetries - 1
       /\ retry.thrown = retry.errors[Len(retry.errors)]

\* ------------------------------------------------------------------- C16
C16_OnlyRateLimited ==
  /\ retry.errors # <<>>
  /\ \A i \in DOMAIN retry.errors : retry.errors[i].code \in Range(rateLimitCodes)

\* C16: for a send that keeps failing with a rate-limit code (80007, 80008,
\* 80009) retryWithBackoff performs maxRetries attempts before it throws, the
\* delays between consecutive attempts are strictly increasing, and each delay
\* is 5 times the delay a non-rate-limit transient error gets at the same
\* attempt number.
C16_RateLimitBackoff ==
  C16_OnlyRateLimited
    => /\ retry.state = "thrown" => retry.calls = maxRetries
       /\ retry.state = "thrown" => Len(retry.delays) = maxRetries - 1
       /\ \A i \in DOMAIN retry.delays :
            /\ retry.delays[i] = 5 * backoffDelay(i, FALSE)
            /\ i > 1 => retry.delays[i - 1] < retry.delays[i]

C16_Witness ==
  /\ C16_OnlyRateLimited
  /\ retry.state = "thrown"
  /\ retry.calls = 3
  /\ retry.delays = <<10000, 20000>>

\* ------------------------------------------------------------------- C17
NextDispatch ==
  \E to \in Destinations, template \in Templates, reply \in ProviderReplies :
    SendTemplate(to, template, reply)

SpecDispatch == Init /\ [][NextDispatch]_vars

\* C17: a provider response with a 2xx status but no message id is a failed
\* send: sendTemplate reports an error, not a success result, to its caller.
C17_NoIdIsFailure ==
  (dispatch.requests = 1 /\ dispatch.reply.kind = "noid") => dispatch.outcome = "threw"

\* ------------------------------------------------------------------- C18
\* C18: validation precedes the network. A send whose payload has no
\* destination, no template name, or a destination that does not normalize to
\* ^\+\d{10,15}$ is rejected with an error to the caller, and no HTTP request
\* to the provider is issued for it.
C18_ValidatedBeforeRequest ==
  (/\ dispatch.outcome # "none"
   /\ \/ missingRequiredFields(dispatch.to, dispatch.template)
      \/ ~matchesE164(normalizedDestination(dispatch.to)))
    => dispatch.outcome = "threw" /\ dispatch.requests = 0

\* ------------------------------------------------------------------- C19
NextVerify ==
  \E env \in EnvTokens, mode \in Modes, token \in QueryTokens, challenge \in Challenges :
    VerifyWebhook(env, mode, token, challenge)

SpecVerify == Init /\ [][NextVerify]_vars

\* C19 as stated: the verification endpoint returns status 200 with the
\* challenge as body when the supplied verify token equals the configured
\* secret, and 403 in every other case.
C19_TokenAloneDecides ==
  verify.status # 0
    => IF verify.token = VERIFY_TOKEN(verify.env)
       THEN verify.status = 200 /\ verify.body = verify.challenge
       ELSE verify.status = 403

\* C19 amended: the verification endpoint returns status 200 with the
\* challenge as body when hub.mode is 'subscribe' and the supplied verify token
\* equals the configured secret (the environment value, or the built-in
\* default when none is set), and 403 in every other case.
C19_SubscribeAndTokenDecide ==
  verify.status # 0
    => IF verify.mode = "subscribe" /\ verify.token = VERIFY_TOKEN(verify.env)
       THEN verify.status = 200 /\ verify.body = verify.challenge
       ELSE verify.status = 403

\* the right token with a mode other than 'subscribe' was refused
C19_Witness ==
  /\ verify.status = 403
  /\ verify.token = VERIFY_TOKEN(verify.env)
  /\ verify.mode = "unsubscribe"

\* ------------------------------------------------------------------- C20
\* the detached handler of a status callback that found a token for its
\* message id runs to its end
C20_StatusWithTokenStep ==
  \E h \in BagToSet(handlers) :
    /\ h.kind = "status"
    /\ h.pc = "snr"
    /\ handlers' = Finish(h)

\* C20: a delivery-status callback whose message id already has a token only
\* logs: it changes no participant's attendance and no token, so an attendance
\* value set by a button reply survives any later status of the message.
C20_StatusOnlyLogs ==
  [][C20_StatusWithTokenStep => (attending' = attending /\ tokens' = tokens)]_vars

\* ------------------------------------------------------------------- C21
\* the webhook under one button reply, delivered any number of times, to
\* stored send-path tokens: sends, detached stores, the reply in either format
\* and the context-id handler (no phone lookup finds a send-path token, so the
\* legacy handler never starts)
NextReply ==
  \/ \E p \in Participants : SendBookingConfirmation(p)
  \/ \E task \in pendingStores, dbok \in BOOLEAN : StoreRun(task, dbok)
  \/ \E pl \in AllPayloads, dbok \in BOOLEAN : DeliverButton(1, pl, dbok)
  \/ \E pl \in AllPayloads, dbok \in BOOLEAN : DeliverInteractive(1, pl, dbok)
  \/ \E h \in BagToSet(handlers), dbok \in BOOLEAN : BtnUpdate(h, dbok)
  \/ \E h \in BagToSet(handlers), dbok \in BOOLEAN : BtnDelete(h, dbok)

SpecReply == Init /\ [][NextReply]_vars

\* reply rid is delivered for the first time and neither a token (by its
\* context id, or unprocessed by its phone) nor a participant (by the probe
\* forms of its phone) can be resolved for it
C21_Miss(rid) ==
  /\ payloadOf[rid] = NoPayload
  /\ payloadOf'[rid] # NoPayload
  /\ C13_Matching(payloadOf'[rid].from) = {}
  /\ IF payloadOf'[rid].kind = "button"
     THEN ~\E r \in tokens : r.messageId = payloadOf'[rid].ctx
     ELSE ~\E r \in tokens :
             /\ r.phoneNumber = replaceNonDigitPlus(payloadOf'[rid].from)
             /\ ~r.isProcessed

\* C21: correlation misses are inert. A button reply for which neither a token
\* nor a participant can be resolved leaves the token store and every
\* participant's attendance unchanged, starts no detached work that could
\* change them later, and the webhook request is answered with 200.
C21_MissesAreInert ==
  [][\A rid \in ReplyIds :
       C21_Miss(rid) => /\ tokens' = tokens
                        /\ attending' = attending
                        /\ handlers' = handlers
                        /\ lastRequest'.codes = <<200>>]_vars

\* a stranger's reply was answered while tokens of other subscribers exist
C21_Witness ==
  /\ \E rid \in ReplyIds : payloadOf[rid].from = Stranger
  /\ tokens # {}
  /\ handlers = EmptyBag
  /\ lastRequest.codes = <<200>>

\* ------------------------------------------------------------------- C22
NextBulk ==
  \/ \E data \in Uploads, dbok \in BOOLEAN : Create(data, dbok)
  \/ \E outcome \in EventLookups : BatchLookup(outcome)
  \/ \E outcome \in SendOutcomes : BatchParticipant(outcome)
  \/ \E dbok \in BOOLEAN : BatchStore(dbok)

SpecBulk == Init /\ [][NextBulk]_vars

\* C22: create has returned the inserted rows whenever its batch is running
\* (it does not wait for it), and once create has answered no step of the
\* batch (event lookup, send, token store, whatever their outcome) changes
\* the answer or the inserted rows.
C22_CreateDecoupled ==
  /\ [](bulk.batch # "none" =>
          bulk.result = [status |-> "resolved", rows |-> bulk.table])
  /\ [][bulk.result # NoResult =>
          bulk'.result = bulk.result /\ bulk'.table = bulk.table]_vars

\* a batch of two rows ended with a failed send and a failed token store
C22_Witness ==
  /\ bulk.batch = "done"
  /\ Len(bulk.table) = 2
  /\ bulk.failureCount > 0
  /\ bulk.logged > 0
  /\ bulk.result = [status |-> "resolved", rows |-> bulk.table]

\* ------------------------------------------------------------------- C23
\* a number is drawn from the entered forms, with a default country code, and
\* goes through the normalizer or through one of the dispatch paths' own
\* formatting
InitPhone ==
  /\ InitWebhook("current") /\ InitScheduler /\ InitDispatcher
  /\ InitIdleButton /\ InitIdleRecord
  /\ phone \in {[IdlePhone EXCEPT !.input = x, !.cc = c] :
                  x \in PhoneInputs, c \in DefaultCountryCodes}

NextPhone ==
  \/ Normalize
  \/ \E site \in InlineSites : InlineNormalize(site)
  \/ NormalizeAgain

SpecPhone == InitPhone /\ [][NextPhone]_vars

Canonical == <<"+", "9", "1">> \o TenDigits

C23_Formats == {<<"0">> \o TenDigits, TenDigits, Canonical}

\* C23: with default country code 91, "09123456789", "9123456789" and
\* "+919123456789" come out as "+919123456789" from the Phone Normalizer and
\* from every inline formatting of the dispatch paths.
C23_ThreeFormatsOneCanonical ==
  (phone.at # "none" /\ phone.cc = <<"9", "1">> /\ phone.input \in C23_Formats)
    => phone.normalized = Canonical

\* ------------------------------------------------------------------- C24
\* C24: normalization is idempotent: the canonical string returned for an
\* accepted input is accepted again and comes back unchanged.
C24_Idempotent ==
  phone.again # NoValidation
    => phone.again.isValid /\ phone.again.normalized = phone.normalized

\* an accepted input that differed from its canonical form was normalized twice
C24_Witness ==
  /\ phone.again # NoValidation
  /\ phone.isValid
  /\ phone.input # phone.normalized
  /\ phone.cc # <<"9", "1">>

\* ------------------------------------------------------------------- C25
C25_Digits(s) == Len(SelectSeq(s, LAMBDA c : c \in Digit))

\* /^\+\d{10,15}$/ spelled out
C25_PlusAnd10To15Digits(s) ==
  /\ Len(s) >= 1
  /\ s[1] = "+"
  /\ C25_Digits(s) = Len(s) - 1
  /\ C25_Digits(s) \in 10..15

\* C25 as stated: an input with fewer than 10 or more than 15 digits of its own
\* is rejected under every default country code, and only strings matching
\* ^\+\d{10,15}$ are returned as valid.
C25_InputDigitsDecide ==
  phone.at = "normalizer"
    => /\ C25_Digits(phone.input) \notin 10..15 => ~phone.isValid
       /\ phone.isValid => C25_PlusAnd10To15Digits(phone.normalized)

\* C25 amended: the digits counted are those of the normalized string (after
\* the leading zero is dropped and the default country code prefixed).
C25_NormalizedDigitsDecide ==
  phone.at = "normalizer"
    => /\ C25_Digits(phone.normalized) \notin 10..15 => ~phone.isValid
       /\ phone.isValid => C25_PlusAnd10To15Digits(phone.normalized)

\* an input of fewer than ten digits was accepted once the country code was
\* prefixed
C25_Witness ==
  /\ phone.at = "normalizer"
  /\ phone.isValid
  /\ C25_Digits(phone.input) < 10

\* ------------------------------------------------------------------- C26
WithCodeNoPlus == <<"9", "1">> \o TenDigits

\* C26: a row entered as "919123456789" is messaged at "+919123456789".
C26_CodeWithoutPlusDispatched ==
  \A k \in 1..Len(bulk.sentTo) :
    bulk.table[bulk.sentTo[k].id].phoneNumber = WithCodeNoPlus
      => bulk.sentTo[k].to = Canonical

\* ------------------------------------------------------------------- C27
\* the key handleButtonResponseByMessageId looks tokens up by when participant
\* p replies: the provider's "from" for p's destination, cleaned
C27_LookupKey(p) == replaceNonDigitPlus(WaId(inlineNormalize(pPhone[p])))

\* C27: every stored token carries, as its phone, the very string the
\* button-reply lookup uses for that subscriber, so that the lookup by phone
\* finds the subscriber's unprocessed token.
C27_OneCanonicalForm ==
  \A r \in tokens :
    /\ r.phoneNumber = C27_LookupKey(r.participantId)
    /\ ~r.isProcessed => latestUnprocessedByPhone(tokens, C27_LookupKey(r.participantId)) # NoTok

\* ------------------------------------------------------------------- C28
\* a button reply of either shape is drawn and decided by its branch
InitDecision ==
  /\ InitWebhook("current") /\ InitScheduler /\ InitDispatcher
  /\ InitIdlePhone /\ InitIdleRecord
  /\ button \in ButtonReplies

NextDecision == Decide

SpecDecision == InitDecision /\ [][NextDecision]_vars

\* C28: for either reply shape the decision is yes when the title or the id
\* contains "yes" whatever the case, otherwise no when either contains "no",
\* otherwise the reply is dropped.
C28_ContainmentDecides ==
  button.decision # "notRun"
    => button.decision =
         IF \/ includes(toLowerCase(button.title), yesLower)
            \/ includes(toLowerCase(button.bid), yesLower)
         THEN "yes"
         ELSE IF \/ includes(toLowerCase(button.title), noLower)
                 \/ includes(toLowerCase(button.bid), noLower)
              THEN "no"
              ELSE Dropped

\* ------------------------------------------------------------------- C29
\* the legacy reply against tokens created from delivery statuses (the only
\* tokens whose phone has the form of a reply's "from"): sends, statuses and
\* their handlers, and one interactive reply delivered any number of times.
\* The sends go to the row p1: a status token's row is found by the recipient's
\* phone, which is the same subscriber's whichever row the send was for.
NextLegacy ==
  \/ SendBookingConfirmation("p1")
  \/ \E m \in MsgIds, dbok \in BOOLEAN : DeliverStatus(m, dbok)
  \/ \E h \in BagToSet(handlers), dbok \in BOOLEAN : StStore(h, dbok)
  \/ \E h \in BagToSet(handlers), dbok \in BOOLEAN : StNotResponded(h, dbok)
  \/ \E pl \in InteractivePayloads, dbok \in BOOLEAN : DeliverInteractive(1, pl, dbok)
  \/ \E h \in BagToSet(handlers), dbok \in BOOLEAN : IntResolve(h, dbok)
  \/ \E h \in BagToSet(handlers), dbok \in BOOLEAN : IntApply(h, dbok)
  \/ \E h \in BagToSet(handlers), dbok \in BOOLEAN : IntMark(h, dbok)

SpecLegacy == Init /\ [][NextLegacy]_vars

C29_Unprocessed(ph) == {r \in tokens : r.phoneNumber = ph /\ ~r.isProcessed}

\* handler h has just resolved its token in this step
C29_Resolved(h) ==
  /\ h.kind = "interactive" /\ h.pc = "apply" /\ h.tok.messageId # NoMsg
  /\ ~BagIn(h, handlers)

C30_ConsumedNow(r) ==
  /\ ~r.isProcessed
  /\ ~\E q \in tokens' : q.messageId = r.messageId /\ ~q.isProcessed

\* handler h performs its delete or mark in this step
C30_Consumes(h) ==
  /\ h.pc \in {"delete", "mark"}
  /\ handlers' = Finish(h)

\* C30: a token is deleted or marked processed only by a handler whose
\* attendance update for the token's participant has completed; a handler
\* whose update fails leaves the tokens as they were; and the context-id flow
\* deletes only tokens of the booking_confirmation template.
C30_ConsumptionFollowsApplication ==
  [][/\ \A r \in tokens :
          C30_ConsumedNow(r) =>
            \E h \in BagToSet(handlers) :
              /\ C30_Consumes(h)
              /\ h.tok.messageId = r.messageId
              /\ r.participantId \in effects[h.rid].participants
              /\ h.kind = "button" => r.templateName = "booking_confirmation"
     /\ (\E h \in BagToSet(handlers) :
           h.pc \in {"update", "apply"} /\ handlers' = Finish(h))
          => tokens' = tokens]_vars

\* ------------------------------------------------------------------- C31
\* a record is drawn and taken through the messages loop
InitClassify ==
  /\ InitWebhook("current") /\ InitScheduler /\ InitDispatcher
  /\ InitIdlePhone /\ InitIdleButton
  /\ record \in Records
  /\ logged = {}

NextClassify == Classify

SpecClassify == InitClassify /\ [][NextClassify]_vars

\* C31: a record reaches at most one handler, the new-format button branch
\* before the legacy interactive one before the text handler; a record of no
\* shape reaches none.
C31_OneEventByPrecedence ==
  record.events # <<"notRun">>
    => /\ Len(record.events) <= 1
       /\ (record.type = "button" /\ record.buttonText)
            => record.events = <<"button">>
       /\ (~(record.type = "button" /\ record.buttonText)
             /\ record.interactive = "button_reply")
            => record.events = <<"interactive">>
       /\ (~(record.type = "button" /\ record.buttonText)
             /\ record.interactive = "none" /\ record.text /\ record.from)
            => record.events = <<"text">>
       /\ (~(record.type = "button" /\ record.buttonText)
             /\ record.interactive # "button_reply"
             /\ ~(record.text /\ record.from))
            => record.events = <<>>

\* a record with a button text, a button_reply and a text body went to the
\* button branch only
C31_Witness ==
  /\ record.type = "button" /\ record.buttonText
  /\ record.interactive = "button_reply"
  /\ record.text /\ record.from
  /\ record.events = <<"button">>

\* ------------------------------------------------------------------- C32
\* delivery statuses, alone in their record or next to a message, for
\* messages sent to the row p1 whose send-path token is not stored yet
NextStatus ==
  \/ SendBookingConfirmation("p1")
  \/ \E m \in MsgIds, dbok \in BOOLEAN : DeliverStatus(m, dbok)
  \/ \E m \in MsgIds, dbok \in BOOLEAN : DeliverMixed(m, dbok)
  \/ \E h \in BagToSet(handlers), dbok \in BOOLEAN : StStore(h, dbok)
  \/ \E h \in BagToSet(handlers), dbok \in BOOLEAN : StNotResponded(h, dbok)

SpecStatus == Init /\ [][NextStatus]_vars

\* C32: a status_update token appears only in the step of a status handler that
\* a record without messages started for a status with a message id and a
\* recipient id, and only when no token has that message id; the statuses of
\* a record with messages start nothing.
C32_ProvisionalOnlyWithoutMessages ==
  [][/\ \A r \in tokens' :
          (r.templateName = "status_update"
             /\ ~\E q \in tokens : q.messageId = r.messageId
                                     /\ q.templateName = "status_update")
            => /\ ~\E q \in tokens : q.messageId = r.messageId
               /\ \E h \in BagToSet(handlers) :
                    /\ h.kind = "status" /\ h.pc = "sstore" /\ h.rid = 0
                    /\ h.ctx = r.messageId /\ h.ctx # NoMsg /\ h.from # <<>>
                    /\ handlers' = Finish(h)
     /\ logged' # logged => handlers' = handlers /\ tokens' = tokens]_vars

\* the status of message 1 came with a message and left no token, while the
\* status of message 2 came alone and left its provisional token
C32_Witness ==
  /\ 1 \in logged
  /\ handlers = EmptyBag
  /\ ~\E r \in tokens : r.messageId = 1
  /\ \E r \in tokens : r.messageId = 2 /\ r.templateName = "status_update"

\* ------------------------------------------------------------------- C33
\* the webhook with a database that answers every query: sends, stores,
\* statuses and one reply of either shape, delivered any number of times
NextProvisional ==
  \/ SendBookingConfirmation("p1")
  \/ \E task \in pendingStores : StoreRun(task, TRUE)
  \/ \E m \in MsgIds : DeliverStatus(m, TRUE)
  \/ \E h \in BagToSet(handlers) : StStore(h, TRUE)
  \/ \E h \in BagToSet(handlers) : StNotResponded(h, TRUE)
  \/ \E pl \in AllPayloads : DeliverButton(1, pl, TRUE)
  \/ \E pl \in AllPayloads : DeliverInteractive(1, pl, TRUE)
  \/ \E h \in BagToSet(handlers) : BtnUpdate(h, TRUE)
  \/ \E h \in BagToSet(handlers) : BtnDelete(h, TRUE)
  \/ \E h \in BagToSet(handlers) : IntResolve(h, TRUE)
  \/ \E h \in BagToSet(handlers) : IntApply(h, TRUE)
  \/ \E h \in BagToSet(handlers) : IntMark(h, TRUE)

SpecProvisional == Init /\ [][NextProvisional]_vars

\* the unprocessed provisional tokens a reply of this payload refers to: by
\* its context id for the new format, by its sender for the legacy one
C33_ProvisionalFor(pl) ==
  {r \in tokens :
     /\ r.templateName = "status_update" /\ ~r.isProcessed
     /\ r.phoneNumber = replaceNonDigitPlus(pl.from)
     /\ pl.kind = "button" => r.messageId = pl.ctx}

\* C33: when a yes/no reply of either shape arrives from the recipient of a
\* provisional token, the webhook starts the handler that updates the
\* token's participant.
C33_ProvisionalTokenCorrelates ==
  [][(/\ payloadOf[1] = NoPayload
      /\ payloadOf'[1] # NoPayload
      /\ C33_ProvisionalFor(payloadOf'[1]) # {})
       => \E h \in BagToSet(handlers') :
            /\ ~BagIn(h, handlers)
            /\ h.rid = 1
            /\ h.kind = "button"
                 => \E r \in C33_ProvisionalFor(payloadOf'[1]) :
                      h.tok.participantId = r.participantId]_vars

\* ------------------------------------------------------------------- C34
\* C34: whenever a send of a tier returns a provider message id, the
\* participant's event is at that moment active, not yet past and within the
\* tier's window.
C34_SentOnlyWhenDue ==
  [][\A tier \in Tiers :
       \A p \in SParticipants :
         (<<tier, p>> \in idReturned' /\ <<tier, p>> \notin idReturned)
           => sEvent[p] \in eventsDue(tier)]_vars

\* ------------------------------------------------------------------- C35
\* C35: the tiers are independent. The participants query of a tier selects
\* the event's participants whose timestamp of that tier is NULL, whatever
\* the other tier's timestamp is; and a step that writes a timestamp of a
\* tier is the UPDATE of a tick of that tier for that participant and leaves
\* the other tier's column as it was.
C35_TiersIndependent ==
  [][/\ \A t \in BagToSet(ticks) :
          \A u \in BagToSet(ticks') :
            (/\ t.pc = "participants" /\ u.pc = "send" /\ u.pi = 1
             /\ ticks' = StepTick(t, u))
              => Range(u.parts) =
                   {p \in SParticipants : /\ sEvent[p] = t.events[t.ei]
                                          /\ sPhone[p] # <<>>
                                          /\ reminderAt[t.tier][p] = NullTime}
     /\ \A tier \in Tiers :
          \A p \in SParticipants :
            reminderAt'[tier][p] # reminderAt[tier][p]
              => /\ \A other \in Tiers \ {tier} :
                      reminderAt'[other] = reminderAt[other]
                 /\ \E t \in BagToSet(ticks) :
                      /\ t.pc = "mark" /\ t.tier = tier
                      /\ t.parts[t.pi] = p]_vars

\* C35 witness: one participant has both timestamps set (its second send ran
\* with the other tier's timestamp present), another has the 3-hour
\* timestamp set while its 12-hour timestamp is still NULL.
C35_Witness ==
  /\ \E p \in SParticipants :
       \A tier \in Tiers : reminderAt[tier][p] # NullTime
  /\ \E q \in SParticipants :
       /\ reminderAt["3hours"][q] # NullTime
       /\ reminderAt["12hours"][q] = NullTime

\* ------------------------------------------------------------------- C36
\* C36: an iteration of the batch that calls the provider starts only when
\* the batch has made no provider call yet or has gone through the
\* inter-message delay since its last one.
C36_DelayBetweenSends ==
  [][(/\ bulk.batch = "loop"
      /\ bulk'.i = bulk.i + 1
      /\ ~bulkSkips(bulk.table[bulk.i], bulk.eventName))
       => bulk.gap # "call"]_vars

\* ------------------------------------------------------------------- C37
\* the webhook receiving one request at a time, each after the handler of
\* the one before has finished: statuses, and one reply of either shape
\* delivered any number of times; the updates of the handlers may fail
Quiet == handlers = EmptyBag

NextUpdate ==
  \/ SendBookingConfirmation("p1")
  \/ \E task \in pendingStores : StoreRun(task, TRUE)
  \/ \E m \in MsgIds : Quiet /\ DeliverStatus(m, TRUE)
  \/ \E pl \in AllPayloads : Quiet /\ DeliverButton(1, pl, TRUE)
  \/ \E pl \in AllPayloads : Quiet /\ DeliverInteractive(1, pl, TRUE)
  \/ \E h \in BagToSet(handlers) : StStore(h, TRUE)
  \/ \E h \in BagToSet(handlers), dbok \in BOOLEAN : StNotResponded(h, dbok)
  \/ \E h \in BagToSet(handlers), dbok \in BOOLEAN : BtnUpdate(h, dbok)
  \/ \E h \in BagToSet(handlers) : BtnDelete(h, TRUE)
  \/ \E h \in BagToSet(handlers) : IntResolve(h, TRUE)
  \/ \E h \in BagToSet(handlers), dbok \in BOOLEAN : IntApply(h, dbok)
  \/ \E h \in BagToSet(handlers) : IntMark(h, TRUE)

SpecUpdate == Init /\ [][NextUpdate]_vars

ReplyValues == {"Yes", "No", "yes", "no"}

\* C37: a step that sets an attendance to a reply's value is the UPDATE of one
\* button handler; it changes the attending of no participant other than the
\* one whose id and event the handler resolved, and it changes no token and
\* no reminder timestamp.
C37_OneRowOnly ==
  [][(\E p \in Participants :
        attending'[p] # attending[p] /\ attending'[p] \in ReplyValues)
       => /\ reminderAt' = reminderAt
          /\ tokens' = tokens
          /\ \E h \in BagToSet(handlers) :
               /\ h.kind \in {"button", "interactive"}
               /\ h.pc \in {"update", "apply"}
               /\ \A q \in Participants :
                    attending'[q] # attending[q]
                      => q = h.tok.participantId /\ pEvent[q] = h.tok.eventId]_vars

\* C37 witness: the reply has been handled to its end, one participant has
\* the reply's value and the other participant was never written.
C37_Witness ==
  /\ payloadOf[1] # NoPayload
  /\ handlers = EmptyBag
  /\ \E p \in Participants :
       /\ attending[p] \in ReplyValues
       /\ effects[1].participants = {p}
       /\ \A q \in Participants \ {p} : attending[q] = NullAttending

\* ------------------------------------------------------------------- C38
\* a different reply to the same invitation from the same phone
OtherReplyTo(a) ==
  {pl \in AllPayloads : /\ pl.kind = a.kind /\ pl.from = a.from /\ pl.ctx = a.ctx
                        /\ pl.text # a.text}

\* the booking confirmation and its token store, reply A (reply 1) and then a
\* different reply B (the later reply) to it, with a database that answers
\* every query; A is not delivered again once B has arrived
NextOrder ==
  \/ SendBookingConfirmation("p1")
  \/ \E task \in pendingStores : StoreRun(task, TRUE)
  \/ \E pl \in AllPayloads :
       payloadOf[LaterReply] = NoPayload /\ DeliverButton(1, pl, TRUE)
  \/ \E pl \in OtherReplyTo(payloadOf[1]) :
       payloadOf[1] # NoPayload /\ DeliverButton(LaterReply, pl, TRUE)
  \/ \E h \in BagToSet(handlers) : BtnUpdate(h, TRUE)
  \/ \E h \in BagToSet(handlers) : BtnDelete(h, TRUE)

SpecOrder == Init /\ [][NextOrder]_vars

\* C38: once reply B has been delivered by the subscriber after reply A and
\* no handler is in flight, the participant reply A updated has the value of
\* reply B.
C38_LastReplyWins ==
  (/\ payloadOf[LaterReply] # NoPayload
   /\ payloadOf[LaterReply].from # Stranger
   /\ handlers = EmptyBag)
    => \A p \in effects[1].participants :
         attending[p] = IF payloadOf[LaterReply].text = Yes THEN "Yes" ELSE "No"

\* ------------------------------------------------------------------- C39
\* the pairs of values a deployment could use for "attending" and "not
\* attending"
YesNoPairs == {<<"Yes", "No">>, <<"yes", "no">>}

\* C39: there is one pair of values, one for the affirmative and one for the
\* negative, such that every attendance the webhook has written is one of the
\* two.
C39_CanonicalValues ==
  \E pair \in YesNoPairs :
    \A p \in Participants : attending[p] \in {NullAttending, pair[1], pair[2]}

\* ------------------------------------------------------------------- C40
\* the scheduler of a module that is destroyed at some point after its
\* onModuleInit has been called
NextStop ==
  \/ NextSchedIdle
  \/ OnModuleDestroy

SpecStop == Init /\ [][NextStop]_vars

Destroyed == {"stopped", "initialDestroyed", "runningDestroyed"}

\* C40: once onModuleDestroy has run, no execution of handleEventReminders
\* is started.
C40_NoTickAfterDestroy ==
  [][(phase \in Destroyed)
       => (BagCardinality(ticks') <= BagCardinality(ticks))]_vars

====
